---- MODULE Spec2Model ----
(***************************************************************************)
(* The notification bell of ORBIT's Header component                       *)
(* (src/client/src/components/Header.tsx) together with the systemAlerts   *)
(* table behind it (src/server/storage.ts).                                *)
(*                                                                         *)
(* Strings are sequences of one-character strings, so that substring       *)
(* search, lower-casing, trimming and line splitting are computed as the   *)
(* code computes them.  The characters U+2014 and U+2013 are written       *)
(* "EMDASH" and "ENDASH".                                                  *)
(***************************************************************************)
EXTENDS Integers, Sequences, FiniteSets, TLC

VARIABLES
    user,            \* the signed-in viewer (useAuth)
    systemAlerts,    \* server table: alert id -> isRead
    queryState,      \* react-query cache, per query: data, hasData, status
    fetching,        \* per query: the response in flight, if any
    mutations,       \* outstanding mark-read requests with their onMutate context
    pendingMarkIds,  \* useState: ids with a mark-read request outstanding
    hiddenAlertIds,  \* useState: ids dismissed from the bell
    localStorage,    \* browser storage: key (viewer id) -> persisted hidden ids
    lastHandler,     \* the handler that ran last: its kind, alert id, query
    dismissedBy,     \* history: viewer id -> the ids that viewer dismissed
    render           \* the rendering of one row: its input and what was computed

vars == <<user, systemAlerts, queryState, fetching, mutations,
          pendingMarkIds, hiddenAlertIds, localStorage, lastHandler,
          dismissedBy, render>>

(***************************************************************************)
(* Bounds of the model.                                                    *)
(***************************************************************************)
MaxAlerts == 3      \* rows of the systemAlerts table
MaxPending == 2     \* mark-read requests outstanding at the same time

(***************************************************************************)
(* String helpers (JavaScript String methods).                             *)
(***************************************************************************)
UpperLetters == <<"A","B","C","D","E","F","G","H","I","J","K","L","M",
                  "N","O","P","Q","R","S","T","U","V","W","X","Y","Z">>
LowerLetters == <<"a","b","c","d","e","f","g","h","i","j","k","l","m",
                  "n","o","p","q","r","s","t","u","v","w","x","y","z">>
Letters == {UpperLetters[i] : i \in 1..Len(UpperLetters)}
             \cup {LowerLetters[i] : i \in 1..Len(LowerLetters)}
Digits == {"0","1","2","3","4","5","6","7","8","9"}
Whitespace == {" ", "\n", "\t", "\r"}

LowerChar(c) ==
    IF \E i \in 1..Len(UpperLetters) : UpperLetters[i] = c
    THEN LowerLetters[CHOOSE i \in 1..Len(UpperLetters) : UpperLetters[i] = c]
    ELSE c

toLowerCase(s) == [i \in 1..Len(s) |-> LowerChar(s[i])]

includes(hay, needle) ==
    \E i \in 1..(Len(hay) - Len(needle) + 1) :
        SubSeq(hay, i, i + Len(needle) - 1) = needle

trimStart(s) ==
    IF \A i \in 1..Len(s) : s[i] \in Whitespace THEN <<>>
    ELSE SubSeq(s, CHOOSE i \in 1..Len(s) :
                      /\ s[i] \notin Whitespace
                      /\ \A j \in 1..(i - 1) : s[j] \in Whitespace, Len(s))

trimEnd(s) ==
    IF \A i \in 1..Len(s) : s[i] \in Whitespace THEN <<>>
    ELSE SubSeq(s, 1, CHOOSE i \in 1..Len(s) :
                      /\ s[i] \notin Whitespace
                      /\ \A j \in (i + 1)..Len(s) : s[j] \in Whitespace)

trim(s) == trimEnd(trimStart(s))

\* s.split('\n')[0]
firstLineOf(s) ==
    IF \E i \in 1..Len(s) : s[i] = "\n"
    THEN SubSeq(s, 1, (CHOOSE i \in 1..Len(s) :
                          /\ s[i] = "\n"
                          /\ \A j \in 1..(i - 1) : s[j] # "\n") - 1)
    ELSE s

\* a || b on strings: the empty string is falsy
orElse(a, b) == IF a # <<>> THEN a ELSE b

(***************************************************************************)
(* The title suffix "<dash> email" of parseEquipmentAlert.                 *)
(***************************************************************************)
Dashes == {"EMDASH", "ENDASH", "-"}
EmailLocalChars == Letters \cup Digits \cup {".", "_", "%", "+", "-"}
EmailDomainChars == Letters \cup Digits \cup {".", "-"}

\* s matches ^[A-Za-z0-9._%+-]+@[A-Za-z0-9.-]+\.[A-Za-z]{2,}$
isEmail(s) ==
    \E at \in 2..Len(s) :
        /\ s[at] = "@"
        /\ \A i \in 1..(at - 1) : s[i] \in EmailLocalChars
        /\ \E dot \in (at + 2)..(Len(s) - 2) :
              /\ s[dot] = "."
              /\ \A i \in (at + 1)..(dot - 1) : s[i] \in EmailDomainChars
              /\ \A i \in (dot + 1)..Len(s) : s[i] \in Letters

\* positions where /[--]\s*(email)\s*$/ can start
titleEmailStarts(title) ==
    {i \in 1..Len(title) :
        /\ title[i] \in Dashes
        /\ isEmail(trim(SubSeq(title, i + 1, Len(title))))}

NoEmail == <<>>

\* may return NoEmail (null in the code)
titleRequesterEmail(title) ==
    LET starts == titleEmailStarts(title) IN
    IF starts = {} THEN NoEmail
    ELSE LET i == CHOOSE k \in starts : \A j \in starts : k <= j
         IN trim(SubSeq(title, i + 1, Len(title)))

(***************************************************************************)
(* Viewers and alert records.  An alert of the systemAlerts table is named *)
(* by its index in AlertPool; only isRead changes during a run, so caches  *)
(* and responses hold entries [id, isRead] and the other fields are read   *)
(* from the pool.                                                          *)
(***************************************************************************)
MeEmail == <<"m","e","@","x",".","c","o","m">>
SomeoneEmail == <<"s","o","m","e","o","n","e","@","e","l","s","e",".","c","o","m">>
AdminEmail == <<"a","d","m","i","n","@","x",".","c","o","m">>

NoUserId == "null"

Users ==
    { [id |-> "admin1", role |-> "admin",   email |-> AdminEmail],
      [id |-> "u1",     role |-> "student", email |-> MeEmail],
      [id |-> "u2",     role |-> "faculty", email |-> SomeoneEmail] }

\* a viewer whose email is the end of u2's email, for SpecOverlap
OneEmail == <<"o","n","e","@","e","l","s","e",".","c","o","m">>

OverlapUsers ==
    { [id |-> "u3", role |-> "student", email |-> OneEmail],
      [id |-> "u2", role |-> "faculty", email |-> SomeoneEmail] }

AlertPool ==
    << [userId |-> "u1", title |-> <<"T">>, createdAt |-> 1,
        message |-> <<"a","\n","b">>, details |-> <<>>],
       [userId |-> "u1", title |-> <<"T">>, createdAt |-> 2,
        message |-> <<" ","a"," ">>, details |-> <<>>],
       [userId |-> NoUserId, title |-> <<"T">>, createdAt |-> 4,
        message |-> <<"a","\n">> \o MeEmail, details |-> <<>>],
       [userId |-> NoUserId, title |-> <<"E">>, createdAt |-> 4,
        message |-> <<>>, details |-> <<"M","e","@","X",".","c","o","m"," ","!">>],
       [userId |-> "u1", title |-> <<"E">>, createdAt |-> 3,
        message |-> <<"b">>, details |-> <<>>],
       [userId |-> NoUserId, createdAt |-> 1,
        title |-> <<"N"," ","EMDASH"," ">> \o SomeoneEmail \o <<" ">>,
        message |-> <<"b">>, details |-> MeEmail],
       [userId |-> NoUserId, title |-> <<"E">>, createdAt |-> 3,
        message |-> SomeoneEmail, details |-> <<>>],
       [userId |-> "u2", title |-> <<"T">>, createdAt |-> 1,
        message |-> <<"a">>, details |-> <<"c">>] >>

AlertIds == 1..Len(AlertPool)

Row(id) == AlertPool[id]

createdAtOf(e) == Row(e.id).createdAt

Entry(id, read) == [id |-> id, isRead |-> read]

\* the ids of a feed
IdsOf(feed) == {feed[i].id : i \in 1..Len(feed)}

(***************************************************************************)
(* Server side: storage.ts.                                                *)
(***************************************************************************)
RECURSIVE AllOrders(_)
AllOrders(S) ==
    IF S = {} THEN {<<>>}
    ELSE UNION {{<<x>> \o s : s \in AllOrders(S \ {x})} : x \in S}

\* SELECT * FROM system_alerts ORDER BY created_at DESC: rows with equal
\* createdAt come in any order
getSystemAlerts ==
    {[i \in 1..Len(o) |-> Entry(o[i], systemAlerts[o[i]])] :
        o \in {p \in AllOrders(DOMAIN systemAlerts) :
                  \A i, j \in 1..Len(p) :
                      i < j => Row(p[i]).createdAt >= Row(p[j]).createdAt}}

\* UPDATE system_alerts SET is_read = true WHERE id = ...
markAlertAsRead(id) ==
    [a \in DOMAIN systemAlerts |-> IF a = id THEN TRUE ELSE systemAlerts[a]]

\* GET /api/admin/alerts and GET /api/notifications
adminAlertsFeed == getSystemAlerts
notificationsFeed == getSystemAlerts

(***************************************************************************)
(* Client side: the queries of Header.tsx and what is derived from them.   *)
(***************************************************************************)
Queries == {"admin", "user", "owner"}

isAdmin == user.role = "admin"

\* useQuery({ enabled: ... }); a viewer is signed in throughout
enabled(q) == IF q = "admin" THEN isAdmin ELSE ~isAdmin

\* const { data: x = [] } = useQuery(...)
dataOrEmpty(q) == IF queryState[q].hasData THEN queryState[q].data ELSE <<>>

adminAlerts == dataOrEmpty("admin")
userAlerts == dataOrEmpty("user")
ownerAdminAlerts == dataOrEmpty("owner")

isLoading(q) == ~queryState[q].hasData /\ queryState[q].status = "pending"

alertsLoading == IF isAdmin THEN isLoading("admin") ELSE isLoading("user")

userAlertsFiltered ==
    LET mine(a) == Row(a.id).userId = user.id
    IN SelectSeq(userAlerts, mine)

ownerEmail == toLowerCase(user.email)

\* mutant: the text is searched without lower-casing it
isRelevantTo_CaseSensitive(r, email) ==
    LET hay == orElse(orElse(r.message, r.details), r.title)
        requester == titleRequesterEmail(r.title)
    IN \/ includes(hay, email)
       \/ requester # NoEmail /\ toLowerCase(requester) = email

\* the filter callback of `relevant`, for one record and one viewer email
isRelevantTo(r, email) ==
    LET hay == toLowerCase(orElse(orElse(r.message, r.details), r.title))
        requester == titleRequesterEmail(r.title)
    IN \/ includes(hay, email)
       \/ requester # NoEmail /\ toLowerCase(requester) = email

\* isRelevantTo over the pool and the viewers, computed once
RelevantIds ==
    [u \in Users \cup OverlapUsers |->
        {id \in AlertIds : isRelevantTo(Row(id), toLowerCase(u.email))}]

mentionsOwner(a) == a.id \in RelevantIds[user]

\* base after the cross-scope records were pushed
baseAlerts ==
    LET own == userAlertsFiltered
        extra(a) == mentionsOwner(a) /\ a.id \notin IdsOf(own)
    IN IF Len(ownerAdminAlerts) > 0 /\ ownerEmail # <<>>
       THEN own \o SelectSeq(ownerAdminAlerts, extra)
       ELSE own

\* `${a.title || ''}||${firstLine}`
keyOf(r) ==
    r.title \o <<"|", "|">> \o trim(firstLineOf(orElse(r.message, r.details)))

\* keyOf over the pool, computed once
RowKeys == [id \in AlertIds |-> keyOf(Row(id))]

dedupeKey(a) == RowKeys[a.id]

\* mutant: the first record of a group is kept
preferNewest_KeepFirst(existing, a) == existing

\* "prefer newest": the record of a group after `a` arrives
preferNewest(existing, a) ==
    IF createdAtOf(a) > createdAtOf(existing) THEN a ELSE existing

\* groups in insertion order of their keys (Object.values)
RECURSIVE dedupeInto(_, _)
dedupeInto(groups, rest) ==
    IF rest = <<>> THEN groups
    ELSE LET a == Head(rest)
             hit == {j \in 1..Len(groups) : dedupeKey(groups[j]) = dedupeKey(a)}
         IN dedupeInto(
                IF hit = {} THEN Append(groups, a)
                ELSE LET j == CHOOSE k \in hit : TRUE
                     IN [groups EXCEPT ![j] = preferNewest(groups[j], a)],
                Tail(rest))

dedupeGroups(base) == dedupeInto(<<>>, base)

\* Array.prototype.sort((x, y) => y.createdAt - x.createdAt): stable
RECURSIVE insertNewestFirst(_, _)
insertNewestFirst(sorted, e) ==
    IF sorted = <<>> THEN <<e>>
    ELSE IF createdAtOf(Head(sorted)) >= createdAtOf(e)
         THEN <<Head(sorted)>> \o insertNewestFirst(Tail(sorted), e)
         ELSE <<e>> \o sorted

RECURSIVE sortNewestFirstFrom(_, _)
sortNewestFirstFrom(sorted, rest) ==
    IF rest = <<>> THEN sorted
    ELSE sortNewestFirstFrom(insertNewestFirst(sorted, Head(rest)), Tail(rest))

\* mutant: the list is left in arrival order
sortNewestFirst_Unsorted(feed) == feed

sortNewestFirst(feed) == sortNewestFirstFrom(<<>>, feed)

\* mutant: the admin's feed is deduplicated and sorted like a viewer's
alertsData_DedupedForAdmin ==
    sortNewestFirst(dedupeGroups(IF isAdmin THEN adminAlerts ELSE baseAlerts))

alertsData ==
    IF isAdmin THEN adminAlerts
    ELSE sortNewestFirst(dedupeGroups(baseAlerts))

\* mutant: hidden rows are counted
unreadCount_CountingHidden ==
    LET counted(a) == ~a.isRead
    IN Len(SelectSeq(alertsData, counted))

unreadCount ==
    LET counted(a) == ~a.isRead /\ a.id \notin hiddenAlertIds
    IN Len(SelectSeq(alertsData, counted))

BellLimit == 5

\* the rows rendered in the dropdown
bellList ==
    LET shown(a) == a.id \notin hiddenAlertIds
        visible == SelectSeq(sortNewestFirst(alertsData), shown)
    IN SubSeq(visible, 1, IF Len(visible) < BellLimit THEN Len(visible) ELSE BellLimit)

hiddenStorageKey == user.id

(***************************************************************************)
(* The react-query cache.                                                  *)
(***************************************************************************)
NoData == [data |-> <<>>, hasData |-> FALSE, status |-> "pending"]
Fresh(feed) == [data |-> feed, hasData |-> TRUE, status |-> "success"]
NoFetch == [active |-> FALSE, data |-> <<>>]
InFlight(feed) == [active |-> TRUE, data |-> feed]

\* a query without data that starts fetching is loading again
fetchStarted(cache, q) ==
    IF cache[q].hasData THEN cache ELSE [cache EXCEPT ![q] = NoData]

\* the endpoint a query reads
feedOf(q) == IF q = "user" THEN notificationsFeed ELSE adminAlertsFeed

\* queryClient.getQueryData(key): undefined when nothing was fetched yet
SnapshotOf(state) ==
    [defined |-> state.hasData, data |-> IF state.hasData THEN state.data ELSE <<>>]
getQueryData(q) == SnapshotOf(queryState[q])
Undefined == [defined |-> FALSE, data |-> <<>>]

\* helper to mark read in a dataset
markReadIn(data, alertId) ==
    [i \in 1..Len(data) |->
        IF data[i].id = alertId THEN Entry(data[i].id, TRUE) ELSE data[i]]

\* the cache the actor's list is fetched into
actorQuery == IF isAdmin THEN "admin" ELSE "user"

\* mutant: the queryFn of ownerAdminAlerts does not catch
ownerQueryFn_Uncaught(state) == [state EXCEPT !.status = "error"]

\* queryFn of ownerAdminAlerts when apiRequest or res.json() throws
ownerQueryFnCatch(state) == Fresh(<<>>)

\* queryFn of adminAlerts / userAlerts when apiRequest throws
queryFnThrow(state) == [state EXCEPT !.status = "error"]

(***************************************************************************)
(* markAlertReadMutation.                                                  *)
(***************************************************************************)
\* onMutate: the optimistic update of the actor's cache
optimisticUpdate(cache, alertId) ==
    IF cache[actorQuery].hasData
    THEN [cache EXCEPT ![actorQuery] = Fresh(markReadIn(@.data, alertId))]
    ELSE cache

\* onMutate: the context it returns
mutateContext(alertId) ==
    [alertId |-> alertId,
     prevAdmin |-> IF isAdmin THEN getQueryData("admin") ELSE Undefined,
     prevUser |-> IF ~isAdmin THEN getQueryData("user") ELSE Undefined]

\* mutant: onError restores nothing
rollback_Nothing(cache, context) == cache

\* onError: restore the cache we touched
rollback(cache, context) ==
    LET prev == IF isAdmin THEN context.prevAdmin ELSE context.prevUser
    IN IF prev.defined
       THEN [cache EXCEPT ![actorQuery] = Fresh(prev.data)]
       ELSE cache

\* onError: remove from pending
onErrorPending(pending, context) == pending \ {context.alertId}

\* mutant: onSettled empties the pending set
onSettledPending_Cleared(pending, alertId) == {}

\* mutant: onSettled leaves the id in the pending set
onSettledPending_Kept(pending, alertId) == pending

\* onSettled: remove from pending
onSettledPending(pending, alertId) == pending \ {alertId}

\* onSettled: invalidateQueries of the actor's feed starts a refetch
onSettledInvalidate(inflight, feed) ==
    [inflight EXCEPT ![actorQuery] = InFlight(feed)]

\* mutant: the button ignores the pending set
canMarkRead_IgnoringPending(a) == ~a.isRead

\* the "Mark Read" button of a row is rendered and enabled
canMarkRead(a) == ~a.isRead /\ a.id \notin pendingMarkIds

\* what lastHandler records: "mount", "query" (a fetch was started or a
\* response was stored), "fetchThrow" with its query, "mutate", "success",
\* "error" and "hide" with their alert id; alert is 0 and query is "" when
\* there is none
Handler(kind, alert, query) == [kind |-> kind, alert |-> alert, query |-> query]

removeAt(seq, k) == SubSeq(seq, 1, k - 1) \o SubSeq(seq, k + 1, Len(seq))

(***************************************************************************)
(* Initial state: the component is mounted for a signed-in viewer, the     *)
(* enabled queries are fetching, nothing was dismissed yet.                *)
(***************************************************************************)
\* no row is being rendered
NoRender == [stage |-> "none"]

\* the state right after mounting, for a given content of the table, with
\* a row at hand for the rendering
MountedWith(table, row) ==
    /\ user \in Users
    /\ systemAlerts = table
    /\ queryState = [q \in Queries |-> NoData]
    /\ \E fa \in adminAlertsFeed, fu \in notificationsFeed, fo \in adminAlertsFeed :
          fetching = [q \in Queries |->
                         IF ~enabled(q) THEN NoFetch
                         ELSE InFlight(CASE q = "admin" -> fa
                                         [] q = "user"  -> fu
                                         [] q = "owner" -> fo)]
    /\ mutations = <<>>
    /\ pendingMarkIds = {}
    /\ hiddenAlertIds = {}
    /\ localStorage = [u \in {w.id : w \in Users} |-> [present |-> FALSE, ids |-> {}]]
    /\ lastHandler = Handler("mount", 0, "")
    /\ dismissedBy = [u \in {w.id : w \in Users} |-> {}]
    /\ render = row

\* the state right after mounting, before anything is rendered
Mounted(table) == MountedWith(table, NoRender)

\* the table of the sessions of Spec: a global record that names u1's email
\* and a record of u1, both unread
SessionRows == {4, 5}

Init == Mounted([a \in SessionRows |-> FALSE])

(***************************************************************************)
(* Fetches.                                                                *)
(***************************************************************************)
\* mutant: storing a response drops what the other queries hold
FetchOk_ClearingOthers(q) ==
    /\ lastHandler' = Handler("query", 0, "")
    /\ fetching[q].active
    /\ queryState' = [x \in Queries |->
                         IF x = q THEN Fresh(fetching[q].data) ELSE NoData]
    /\ fetching' = [fetching EXCEPT ![q] = NoFetch]
    /\ UNCHANGED <<user, systemAlerts, mutations, pendingMarkIds,
                   hiddenAlertIds, localStorage, dismissedBy, render>>

\* the response arrives and parses
FetchOk(q) ==
    /\ lastHandler' = Handler("query", 0, "")
    /\ fetching[q].active
    /\ queryState' = [queryState EXCEPT ![q] = Fresh(fetching[q].data)]
    /\ fetching' = [fetching EXCEPT ![q] = NoFetch]
    /\ UNCHANGED <<user, systemAlerts, mutations, pendingMarkIds,
                   hiddenAlertIds, localStorage, dismissedBy, render>>

\* res.json() throws: every queryFn returns []
FetchBadJson(q) ==
    /\ lastHandler' = Handler("query", 0, "")
    /\ fetching[q].active
    /\ queryState' = [queryState EXCEPT ![q] = Fresh(<<>>)]
    /\ fetching' = [fetching EXCEPT ![q] = NoFetch]
    /\ UNCHANGED <<user, systemAlerts, mutations, pendingMarkIds,
                   hiddenAlertIds, localStorage, dismissedBy, render>>

\* apiRequest throws (network error, 401/403)
FetchThrow(q) ==
    /\ lastHandler' = Handler("fetchThrow", 0, q)
    /\ fetching[q].active
    /\ queryState' = [queryState EXCEPT ![q] =
                         IF q = "owner" THEN ownerQueryFnCatch(@)
                         ELSE queryFnThrow(@)]
    /\ fetching' = [fetching EXCEPT ![q] = NoFetch]
    /\ UNCHANGED <<user, systemAlerts, mutations, pendingMarkIds,
                   hiddenAlertIds, localStorage, dismissedBy, render>>

\* a stale query is fetched again (remount, focus)
RefetchStale(q) ==
    /\ lastHandler' = Handler("query", 0, "")
    /\ enabled(q)
    /\ \E feed \in feedOf(q) :
          fetching' = [fetching EXCEPT ![q] = InFlight(feed)]
    /\ queryState' = fetchStarted(queryState, q)
    /\ UNCHANGED <<user, systemAlerts, mutations, pendingMarkIds,
                   hiddenAlertIds, localStorage, dismissedBy, render>>

\* DropdownMenu onOpenChange(open = true)
OpenBell ==
    /\ lastHandler' = Handler("query", 0, "")
    /\ \E feed \in feedOf(actorQuery) :
          fetching' = [fetching EXCEPT ![actorQuery] = InFlight(feed)]
    /\ queryState' = fetchStarted(queryState, actorQuery)
    /\ UNCHANGED <<user, systemAlerts, mutations, pendingMarkIds,
                   hiddenAlertIds, localStorage, dismissedBy, render>>

(***************************************************************************)
(* The buttons of a bell row.                                              *)
(***************************************************************************)
\* onClick of "Mark Read": markAlertReadMutation.mutate(alert.id), onMutate
MarkReadClick(i) ==
    /\ ~alertsLoading
    /\ i \in 1..Len(bellList)
    /\ canMarkRead(bellList[i])
    /\ Len(mutations) < MaxPending
    /\ LET alertId == bellList[i].id IN
          /\ pendingMarkIds' = pendingMarkIds \cup {alertId}
          /\ queryState' = optimisticUpdate(queryState, alertId)
          /\ mutations' = Append(mutations, mutateContext(alertId))
          /\ lastHandler' = Handler("mutate", alertId, "")
    /\ UNCHANGED <<user, systemAlerts, fetching, hiddenAlertIds, localStorage, dismissedBy, render>>

\* the POST is served (markAlertAsRead) and answered: onSettled
MutationSucceed(k) ==
    /\ k \in 1..Len(mutations)
    /\ UNCHANGED <<user, hiddenAlertIds, localStorage, dismissedBy, render>>
    /\ queryState' = fetchStarted(queryState, actorQuery)
    /\ systemAlerts' = markAlertAsRead(mutations[k].alertId)
    /\ lastHandler' = Handler("success", mutations[k].alertId, "")
    /\ \E feed \in feedOf(actorQuery)' :
          fetching' = onSettledInvalidate(fetching, feed)
    /\ pendingMarkIds' = onSettledPending(pendingMarkIds, mutations[k].alertId)
    /\ mutations' = removeAt(mutations, k)

\* the POST fails: onError, then onSettled
MutationFail(k) ==
    /\ k \in 1..Len(mutations)
    /\ queryState' = fetchStarted(rollback(queryState, mutations[k]), actorQuery)
    /\ lastHandler' = Handler("error", mutations[k].alertId, "")
    /\ \E feed \in feedOf(actorQuery) :
          fetching' = onSettledInvalidate(fetching, feed)
    /\ pendingMarkIds' =
          onSettledPending(onErrorPending(pendingMarkIds, mutations[k]),
                           mutations[k].alertId)
    /\ mutations' = removeAt(mutations, k)
    /\ UNCHANGED <<user, systemAlerts, hiddenAlertIds, localStorage, dismissedBy, render>>

\* persistHiddenIds
persistHiddenIds(storage, nextSet) ==
    [storage EXCEPT ![hiddenStorageKey] = [present |-> TRUE, ids |-> nextSet]]

\* mutant: the new set is built without the ids hidden before
hideAlertInBell_Replacing(i) ==
    /\ ~alertsLoading
    /\ i \in 1..Len(bellList)
    /\ LET next == {bellList[i].id} IN
          /\ hiddenAlertIds' = next
          /\ localStorage' = persistHiddenIds(localStorage, next)
          /\ lastHandler' = Handler("hide", bellList[i].id, "")
          /\ dismissedBy' = [dismissedBy EXCEPT ![user.id] = @ \cup {bellList[i].id}]
    /\ UNCHANGED <<user, systemAlerts, queryState, fetching, mutations,
                   pendingMarkIds, render>>

\* mutant: dismissing a row also marks it read in the actor's cache
hideAlertInBell_MarkingRead(i) ==
    /\ ~alertsLoading
    /\ i \in 1..Len(bellList)
    /\ LET next == hiddenAlertIds \cup {bellList[i].id} IN
          /\ hiddenAlertIds' = next
          /\ localStorage' = persistHiddenIds(localStorage, next)
          /\ lastHandler' = Handler("hide", bellList[i].id, "")
          /\ dismissedBy' = [dismissedBy EXCEPT ![user.id] = @ \cup {bellList[i].id}]
          /\ queryState' = optimisticUpdate(queryState, bellList[i].id)
    /\ UNCHANGED <<user, systemAlerts, fetching, mutations, pendingMarkIds, render>>

\* onClick of the dismiss button of a row
hideAlertInBell(i) ==
    /\ ~alertsLoading
    /\ i \in 1..Len(bellList)
    /\ LET next == hiddenAlertIds \cup {bellList[i].id} IN
          /\ hiddenAlertIds' = next
          /\ localStorage' = persistHiddenIds(localStorage, next)
          /\ lastHandler' = Handler("hide", bellList[i].id, "")
          /\ dismissedBy' = [dismissedBy EXCEPT ![user.id] = @ \cup {bellList[i].id}]
    /\ UNCHANGED <<user, systemAlerts, queryState, fetching, mutations,
                   pendingMarkIds, render>>

Next ==
    \/ \E q \in Queries : FetchOk(q)
    \/ \E q \in Queries : FetchBadJson(q)
    \/ \E q \in Queries : FetchThrow(q)
    \/ \E q \in Queries : RefetchStale(q)
    \/ OpenBell
    \/ \E i \in 1..BellLimit : MarkReadClick(i)
    \/ \E k \in 1..MaxPending : MutationSucceed(k)
    \/ \E k \in 1..MaxPending : MutationFail(k)
    \/ \E i \in 1..BellLimit : hideAlertInBell(i)

Spec == Init /\ [][Next]_vars

(***************************************************************************)
(* The reconciliation (alertsData, unreadCount, bellList) is a function of *)
(* the caches, the viewer and the hidden set.  SpecFeeds draws the table   *)
(* from the pool, with any read flags, lets every query settle in every    *)
(* way and lets the viewer dismiss rows.                                   *)
(***************************************************************************)
InitFeeds ==
    \E rows \in SUBSET AlertIds :
        /\ rows # {}
        /\ Cardinality(rows) <= MaxAlerts
        /\ \E table \in [rows -> BOOLEAN] : Mounted(table)

NextFeeds ==
    \/ \E q \in Queries : FetchOk(q)
    \/ \E q \in Queries : FetchBadJson(q)
    \/ \E q \in Queries : FetchThrow(q)
    \/ \E i \in 1..BellLimit : hideAlertInBell(i)

SpecFeeds == InitFeeds /\ [][NextFeeds]_vars


(***************************************************************************)
(* Properties of the mark-read mutation and of dismissal, under Spec.      *)
(***************************************************************************)
OutstandingIds == {mutations[k].alertId : k \in 1..Len(mutations)}

\* the context of the outstanding request for an alert id
ContextOf(alertId) ==
    mutations[CHOOSE k \in 1..Len(mutations) : mutations[k].alertId = alertId]

\* the snapshot onError looks at
PrevOf(context) == IF isAdmin THEN context.prevAdmin ELSE context.prevUser

\* C1: at most one mark-read request per alert id is outstanding at any
\* moment: while a request for an id is outstanding the id is in the pending
\* set, no two outstanding requests have the same id, and the "Mark Read"
\* button of every rendered row with that id is disabled or absent.
C1_AtMostOneInFlight ==
    /\ \A i, j \in 1..Len(mutations) :
          i # j => mutations[i].alertId # mutations[j].alertId
    /\ OutstandingIds \subseteq pendingMarkIds
    /\ \A i \in 1..Len(bellList) :
          bellList[i].id \in OutstandingIds => ~canMarkRead(bellList[i])

\* a request is outstanding for a row that is rendered as unread: only the
\* pending set keeps the button from submitting again
C1_Witness ==
    \E i \in 1..Len(bellList) :
        /\ bellList[i].id \in OutstandingIds
        /\ ~bellList[i].isRead
        /\ ~alertsLoading

\* C2 as stated: whenever a mark-read request fails, the actor's feed cache
\* is afterwards the value it had immediately before that request's
\* optimistic update.
C2_AsStated ==
    [][lastHandler'.kind = "error" =>
          SnapshotOf(queryState'[actorQuery]) = PrevOf(ContextOf(lastHandler'.alert))]_vars

\* C2, amended: when a mark-read request fails and the actor's feed cache
\* held data when the request was submitted, the cache is restored to that
\* data, in which an alert that the list takes from this cache is unread
\* again; when the cache held no data then, the failure leaves the cache as
\* it is.  In both cases the id leaves the pending set.
C2_RollbackToSnapshot ==
    [][lastHandler'.kind = "error" =>
          LET alertId == lastHandler'.alert
              prev == PrevOf(ContextOf(alertId))
          IN /\ prev.defined =>
                   /\ SnapshotOf(queryState'[actorQuery]) = prev
                   /\ (isAdmin \/ Row(alertId).userId = user.id) =>
                         \E i \in 1..Len(prev.data) :
                             prev.data[i] = Entry(alertId, FALSE)
             /\ ~prev.defined =>
                   SnapshotOf(queryState'[actorQuery]) = SnapshotOf(queryState[actorQuery])
             /\ alertId \notin pendingMarkIds']_vars

\* a request has just failed and its row is rendered unread with an enabled
\* "Mark Read" button
C2_Witness ==
    /\ lastHandler.kind = "error"
    /\ queryState[actorQuery].hasData
    /\ \E i \in 1..Len(bellList) :
          /\ bellList[i].id = lastHandler.alert
          /\ canMarkRead(bellList[i])
          /\ (isAdmin \/ Row(bellList[i].id).userId = user.id)

\* C3: every mark-read request that settles, by success or by failure, leaves
\* its id out of the pending set and a refetch of the actor's feed started;
\* the pending set holds no id without an outstanding request.
C3_SettledLeavesPending ==
    /\ pendingMarkIds \subseteq OutstandingIds
    /\ lastHandler.kind \in {"success", "error"} =>
          /\ lastHandler.alert \notin pendingMarkIds
          /\ fetching[actorQuery].active

\* a request has just succeeded while another one is still outstanding
C3_Witness ==
    /\ lastHandler.kind = "success"
    /\ Len(mutations) = 1
    /\ pendingMarkIds = OutstandingIds

\* C9: a cross-scope fetch that fails is an empty feed: the ownerAdminAlerts
\* query never is in the error state, and right after the failure the list is
\* the one computed from the viewer's own notifications alone.
C9_OwnerFetchFailureIsEmpty ==
    /\ queryState["owner"].status # "error"
    /\ lastHandler = Handler("fetchThrow", 0, "owner") =>
          /\ ownerAdminAlerts = <<>>
          /\ alertsData = sortNewestFirst(dedupeGroups(userAlertsFiltered))

\* the cross-scope fetch has just failed for a viewer who has notifications
\* of their own, while the table holds a global record naming the viewer
C9_Witness ==
    /\ lastHandler = Handler("fetchThrow", 0, "owner")
    /\ Len(alertsData) > 0
    /\ \E id \in DOMAIN systemAlerts : id \in RelevantIds[user]

\* C10: dismissing a row issues no mark-read request and changes no isRead
\* flag, neither in a cache nor on the server; it adds the id to the hidden
\* set and writes that set under the viewer's storage key.
C10_HideChangesNoReadState ==
    [][lastHandler'.kind = "hide" =>
          /\ mutations' = mutations
          /\ pendingMarkIds' = pendingMarkIds
          /\ systemAlerts' = systemAlerts
          /\ queryState' = queryState
          /\ fetching' = fetching
          /\ hiddenAlertIds' = hiddenAlertIds \cup {lastHandler'.alert}
          /\ localStorage' =
                [localStorage EXCEPT ![user.id] =
                    [present |-> TRUE, ids |-> hiddenAlertIds']]]_vars

\* an unread row has just been dismissed: it is hidden, persisted and still
\* unread in the list and on the server
C10_Witness ==
    /\ lastHandler.kind = "hide"
    /\ lastHandler.alert \in hiddenAlertIds
    /\ localStorage[user.id] = [present |-> TRUE, ids |-> hiddenAlertIds]
    /\ ~systemAlerts[lastHandler.alert]
    /\ \E i \in 1..Len(alertsData) :
          alertsData[i].id = lastHandler.alert /\ ~alertsData[i].isRead

(***************************************************************************)
(* Properties of the reconciled list, under SpecFeeds.                     *)
(***************************************************************************)
\* title and trimmed first line of message (of details when message is
\* empty), read off the record
SameTitleAndFirstLine(r1, r2) ==
    /\ r1.title = r2.title
    /\ trim(firstLineOf(orElse(r1.message, r1.details)))
          = trim(firstLineOf(orElse(r2.message, r2.details)))

Collide(a, b) == SameTitleAndFirstLine(Row(a.id), Row(b.id))

\* list holds one record per key of base, a latest one
KeepsLatestPerKey(list, base) ==
    /\ \A i, j \in 1..Len(list) : i # j => ~Collide(list[i], list[j])
    /\ \A i \in 1..Len(list) : \E j \in 1..Len(base) : list[i] = base[j]
    /\ \A j \in 1..Len(base) : \E i \in 1..Len(list) :
          /\ Collide(list[i], base[j])
          /\ \A k \in 1..Len(base) :
                Collide(base[k], base[j]) =>
                    createdAtOf(list[i]) >= createdAtOf(base[k])

\* base in every order of arrival
Arrivals(base) ==
    {[i \in 1..Len(base) |-> base[o[i]]] : o \in AllOrders(1..Len(base))}

\* C4: for a non-admin viewer the list holds at most one record per
\* deduplication key, and the record kept for a key has the latest createdAt
\* of the colliding records, in whatever order the records arrive.
C4_DedupeKeepsLatest ==
    ~isAdmin =>
        /\ KeepsLatestPerKey(alertsData, baseAlerts)
        /\ \A arrival \in Arrivals(baseAlerts) :
              KeepsLatestPerKey(sortNewestFirst(dedupeGroups(arrival)), arrival)

\* an older record arrived first and a later one with the same key replaced it
C4_Witness ==
    /\ ~isAdmin
    /\ \E i, j \in 1..Len(baseAlerts) :
          /\ i < j
          /\ Collide(baseAlerts[i], baseAlerts[j])
          /\ createdAtOf(baseAlerts[i]) < createdAtOf(baseAlerts[j])
          /\ \E k \in 1..Len(alertsData) : alertsData[k] = baseAlerts[j]
    /\ Len(alertsData) < Len(baseAlerts)

OwnRecords(u) ==
    CASE u.id = "u1" -> {1, 2, 5}
      [] u.id = "u2" -> {8}
      [] OTHER -> {}

NamedInRecords(u) ==
    CASE u.id = "u1" -> {3, 4}
      [] u.id = "u2" -> {6, 7}
      [] OTHER -> {}

ExpectedIds ==
    (OwnRecords(user) \cap IdsOf(userAlerts))
        \cup (NamedInRecords(user) \cap IdsOf(ownerAdminAlerts))

\* C6 as stated: a non-admin viewer's list contains exactly the user-feed
\* records of the viewer plus the cross-scope records that name the viewer.
C6_AsStated == ~isAdmin => IdsOf(alertsData) = ExpectedIds

\* C6, amended: a non-admin viewer's list contains only user-feed records of
\* the viewer and cross-scope records that name the viewer, and each such
\* record is in the list unless a record with the same title and first line
\* and a createdAt at least as late is; the global record that mentions
\* someone@else.com is never in the list of viewer me@x.com and, once the
\* cross-scope feed holds it, is in the list of viewer someone@else.com.
C6_VisibleRecords ==
    ~isAdmin =>
        /\ IdsOf(alertsData) \subseteq ExpectedIds
        /\ \A id \in ExpectedIds :
              \E i \in 1..Len(alertsData) :
                  \/ alertsData[i].id = id
                  \/ /\ Collide(alertsData[i], Entry(id, FALSE))
                     /\ createdAtOf(alertsData[i]) >= Row(id).createdAt
        /\ user.email = MeEmail => 7 \notin IdsOf(alertsData)
        /\ (user.email = SomeoneEmail /\ 7 \in IdsOf(ownerAdminAlerts)) =>
              7 \in IdsOf(alertsData)

\* viewer me@x.com sees a record of their own and a global record naming
\* them in mixed case, and not the fetched global record naming someone else
C6_Witness ==
    /\ user.email = MeEmail
    /\ 5 \in IdsOf(alertsData)
    /\ 4 \in IdsOf(alertsData)
    /\ 7 \in IdsOf(ownerAdminAlerts)
    /\ 7 \notin IdsOf(alertsData)

\* C7: unreadCount is the number of entries of the list that are unread and
\* not hidden.
C7_UnreadCount ==
    unreadCount =
        Cardinality({i \in 1..Len(alertsData) :
                        ~alertsData[i].isRead /\ alertsData[i].id \notin hiddenAlertIds})

\* three unread alerts, one of them hidden: the count is 2
C7_Witness ==
    /\ Len(alertsData) = 3
    /\ \A i \in 1..Len(alertsData) : ~alertsData[i].isRead
    /\ Cardinality(hiddenAlertIds \cap IdsOf(alertsData)) = 1
    /\ unreadCount = 2

NewestFirst(list) ==
    \A i, j \in 1..Len(list) : i < j => createdAtOf(list[i]) >= createdAtOf(list[j])

loadHiddenAlertIds(current, storage, key) ==
    IF ~storage[key].present THEN current ELSE storage[key].ids

\* the queries of the viewer start again from an empty cache
queriesRestart ==
    /\ queryState' = [q \in Queries |-> NoData]
    /\ \E fa \in adminAlertsFeed', fu \in notificationsFeed', fo \in adminAlertsFeed' :
          fetching' = [q \in Queries |->
                          IF ~enabled(q)' THEN NoFetch
                          ELSE InFlight(CASE q = "admin" -> fa
                                          [] q = "user"  -> fu
                                          [] q = "owner" -> fo)]

\* useAuth returns another viewer while the component is mounted
ViewerChanges(u) ==
    /\ u \in Users
    /\ u # user
    /\ mutations = <<>>
    /\ user' = u
    /\ UNCHANGED <<systemAlerts, mutations, pendingMarkIds, localStorage, dismissedBy, render>>
    /\ queriesRestart
    /\ hiddenAlertIds' = loadHiddenAlertIds(hiddenAlertIds, localStorage, u.id)
    /\ lastHandler' = Handler("viewer", 0, "")

\* the component is mounted anew for a viewer: useState starts from the
\* empty set, then the load effect runs
Remount(u) ==
    /\ u \in Users
    /\ mutations = <<>>
    /\ user' = u
    /\ UNCHANGED <<systemAlerts, mutations, localStorage, dismissedBy, render>>
    /\ queriesRestart
    /\ pendingMarkIds' = {}
    /\ hiddenAlertIds' = loadHiddenAlertIds({}, localStorage, u.id)
    /\ lastHandler' = Handler("mount", 0, "")

\* the table of SpecViewers: a global record naming u1, a record of u1 and
\* a global record naming u2, all unread
ViewerRows == {4, 5, 7}

InitViewers == Mounted([a \in ViewerRows |-> FALSE])

NextViewers ==
    \/ \E q \in Queries : FetchOk(q)
    \/ \E i \in 1..BellLimit : hideAlertInBell(i)
    \/ \E u \in Users : ViewerChanges(u)
    \/ \E u \in Users : Remount(u)

SpecViewers == InitViewers /\ [][NextViewers]_vars

\* C11: the hidden set is per viewer: in every state the hidden set in
\* effect for the signed-in viewer, and the set persisted under each
\* viewer's storage key, contain only ids that this viewer dismissed.
C11_AsStated ==
    /\ hiddenAlertIds \subseteq dismissedBy[user.id]
    /\ \A u \in Users : localStorage[u.id].ids \subseteq dismissedBy[u.id]

(***************************************************************************)
(* parseEquipmentAlert and sanitizeDisplayText: more String methods.       *)
(* Positions are counted from 1; 0 stands for JavaScript's -1.             *)
(***************************************************************************)
\* text.indexOf(key, from)
indexOf(text, key, from) ==
    LET at == {i \in from..(Len(text) - Len(key) + 1) :
                  SubSeq(text, i, i + Len(key) - 1) = key}
    IN IF at = {} THEN 0 ELSE CHOOSE i \in at : \A j \in at : i <= j

\* text.lastIndexOf(key, from)
lastIndexOf(text, key, from) ==
    LET at == {i \in 1..from :
                  /\ i + Len(key) - 1 <= Len(text)
                  /\ SubSeq(text, i, i + Len(key) - 1) = key}
    IN IF at = {} THEN 0 ELSE CHOOSE i \in at : \A j \in at : i >= j

\* text.replace(part, ''): the first occurrence of a string is removed
removeFirst(text, part) ==
    LET i == indexOf(text, part, 1) IN
    IF i = 0 \/ part = <<>> THEN text
    ELSE SubSeq(text, 1, i - 1) \o SubSeq(text, i + Len(part), Len(text))

\* the characters of text from position i on
from(text, i) == SubSeq(text, i, Len(text))

\* text.startsWith(word, i)
startsWithAt(text, i, word) ==
    /\ i >= 1
    /\ i + Len(word) - 1 <= Len(text)
    /\ SubSeq(text, i, i + Len(word) - 1) = word

\* the least and the greatest element of a set of positions
Min(S) == CHOOSE k \in S : \A j \in S : k <= j
Max(S) == CHOOSE k \in S : \A j \in S : k >= j

\* text.startsWith(word, i), letters compared as the i flag does
matchesAt(text, i, word) ==
    /\ i >= 1
    /\ i + Len(word) - 1 <= Len(text)
    /\ toLowerCase(SubSeq(text, i, i + Len(word) - 1)) = toLowerCase(word)

\* the position after the white space that starts at i
skipSpace(text, i) ==
    IF \A j \in i..Len(text) : text[j] \in Whitespace THEN Len(text) + 1
    ELSE CHOOSE j \in i..Len(text) :
            /\ text[j] \notin Whitespace
            /\ \A k \in i..(j - 1) : text[k] \in Whitespace

\* The matches of a regular expression in a text are given as a function
\* ends: ends[i] is the position of the last character of the match that
\* starts at i, 0 when none starts there.  A scan with the g flag takes the
\* first match at or after i and goes on behind it.
RECURSIVE matchStarts(_, _)
\* the starts of the successive matches from position i on
matchStarts(ends, i) ==
    LET starts == {k \in i..Len(ends) : ends[k] # 0} IN
    IF starts = {} THEN <<>>
    ELSE <<Min(starts)>> \o matchStarts(ends, ends[Min(starts)] + 1)

RECURSIVE replaceMatches(_, _, _, _)
\* text.replace(/.../g, by) from position i on
replaceMatches(text, ends, i, by) ==
    LET starts == {k \in i..Len(text) : ends[k] # 0} IN
    IF starts = {} THEN from(text, i)
    ELSE SubSeq(text, i, Min(starts) - 1) \o by
            \o replaceMatches(text, ends, ends[Min(starts)] + 1, by)

\* the matches of a word, and of a word under the i flag
wordEnds(text, word) ==
    [i \in 1..Len(text) |-> IF startsWithAt(text, i, word) THEN i + Len(word) - 1 ELSE 0]
wordEndsI(text, word) ==
    [i \in 1..Len(text) |-> IF matchesAt(text, i, word) THEN i + Len(word) - 1 ELSE 0]

(***************************************************************************)
(* extractJsonAroundKey (brace matching).  The result is never the empty   *)
(* string, so <<>> stands for null.                                        *)
(***************************************************************************)
NoBlock == <<>>

\* the depth after the character at position i, counted from open as the
\* scan does
braceDepth(text, open, i) ==
    Cardinality({k \in open..i : text[k] = "{"})
        - Cardinality({k \in open..i : text[k] = "}"})

\* the first brace after open that brings depth back to 0; 0 when there is
\* none
closingBrace(text, open) ==
    LET closes == {i \in open..Len(text) :
                      text[i] = "}" /\ braceDepth(text, open, i) = 0}
    IN IF closes = {} THEN 0 ELSE Min(closes)

\* mutant: the block ends at the first closing brace
extractJsonAroundKey_FirstClose(text, key) ==
    LET idx == indexOf(text, key, 1)
        after == indexOf(text, <<"{">>, idx)
        open == IF after # 0 THEN after ELSE lastIndexOf(text, <<"{">>, idx)
        close == indexOf(text, <<"}">>, open)
    IN IF idx = 0 THEN NoBlock
       ELSE IF open = 0 THEN NoBlock
       ELSE IF close = 0 THEN NoBlock
       ELSE SubSeq(text, open, close)

extractJsonAroundKey(text, key) ==
    LET idx == indexOf(text, key, 1)
        after == indexOf(text, <<"{">>, idx)
        open == IF after # 0 THEN after ELSE lastIndexOf(text, <<"{">>, idx)
        close == closingBrace(text, open)
    IN IF idx = 0 THEN NoBlock
       ELSE IF open = 0 THEN NoBlock
       ELSE IF close = 0 THEN NoBlock
       ELSE SubSeq(text, open, close)

(***************************************************************************)
(* JSON values and JSON.parse.  A value is a record [t, s, b, keys, vals]: *)
(* t is what the code can tell apart (typeof, Array.isArray), s the        *)
(* characters of a string or number, b a boolean, keys and vals the        *)
(* members of an object in insertion order, vals the elements of an array. *)
(* Numbers are unsigned integers and keys are not array indices (for which *)
(* Object.keys has another order).                                         *)
(***************************************************************************)
JNull == [t |-> "null", s |-> <<>>, b |-> FALSE, keys |-> <<>>, vals |-> <<>>]
JStr(s) == [t |-> "string", s |-> s, b |-> FALSE, keys |-> <<>>, vals |-> <<>>]
JNum(s) == [t |-> "number", s |-> s, b |-> FALSE, keys |-> <<>>, vals |-> <<>>]
JBool(b) == [t |-> "boolean", s |-> <<>>, b |-> b, keys |-> <<>>, vals |-> <<>>]
JArr(vals) == [t |-> "array", s |-> <<>>, b |-> FALSE, keys |-> <<>>, vals |-> vals]
JObj(keys, vals) ==
    [t |-> "object", s |-> <<>>, b |-> FALSE, keys |-> keys, vals |-> vals]

\* a missing property, a missing structuredNote
JUndefined ==
    [t |-> "undefined", s |-> <<>>, b |-> FALSE, keys |-> <<>>, vals |-> <<>>]

\* obj[key]
getProp(obj, key) ==
    IF obj.t = "object" /\ \E i \in 1..Len(obj.keys) : obj.keys[i] = key
    THEN obj.vals[CHOOSE i \in 1..Len(obj.keys) : obj.keys[i] = key]
    ELSE JUndefined

\* obj[key] = val: a new key is appended, a known key keeps its place
setProp(obj, key, val) ==
    IF \E i \in 1..Len(obj.keys) : obj.keys[i] = key
    THEN [obj EXCEPT
             !.vals[CHOOSE i \in 1..Len(obj.keys) : obj.keys[i] = key] = val]
    ELSE [obj EXCEPT !.keys = Append(@, key), !.vals = Append(obj.vals, val)]

\* the value in a condition, in !v and on the left of ||
truthy(v) ==
    CASE v.t = "string"  -> v.s # <<>>
      [] v.t = "number"  -> \E i \in 1..Len(v.s) : v.s[i] # "0"
      [] v.t = "boolean" -> v.b
      [] v.t \in {"object", "array"} -> TRUE
      [] OTHER -> FALSE

RECURSIVE joinComma(_)
joinComma(strs) ==
    IF strs = <<>> THEN <<>>
    ELSE IF Len(strs) = 1 THEN strs[1]
    ELSE strs[1] \o <<",">> \o joinComma(Tail(strs))

RECURSIVE toStr(_)
\* String(v)
toStr(v) ==
    CASE v.t = "string"  -> v.s
      [] v.t = "number"  -> v.s
      [] v.t = "boolean" -> IF v.b THEN <<"t","r","u","e">>
                                   ELSE <<"f","a","l","s","e">>
      [] v.t = "null"    -> <<"n","u","l","l">>
      [] v.t = "undefined" -> <<"u","n","d","e","f","i","n","e","d">>
      [] v.t = "array"   ->
            joinComma([i \in 1..Len(v.vals) |->
                          IF v.vals[i].t \in {"null", "undefined"} THEN <<>>
                          ELSE toStr(v.vals[i])])
      [] OTHER -> <<"[","o","b","j","e","c","t"," ","O","b","j","e","c","t","]">>

\* String(v || '')
toStrOrEmpty(v) == IF truthy(v) THEN toStr(v) ELSE <<>>

\* the result of a parse step: the value and the position after it
Parsed(v, next) == [ok |-> TRUE, v |-> v, next |-> next]
SyntaxError == [ok |-> FALSE, v |-> JUndefined, next |-> 0]

JsonSpace == {" ", "\n", "\t", "\r"}

\* the position after JSON white space
skipJsonSpace(text, i) ==
    IF \A j \in i..Len(text) : text[j] \in JsonSpace THEN Len(text) + 1
    ELSE CHOOSE j \in i..Len(text) :
            /\ text[j] \notin JsonSpace
            /\ \A k \in i..(j - 1) : text[k] \in JsonSpace

RECURSIVE parseStringBody(_, _, _)
\* the characters of a string literal from i on, up to the closing quote,
\* taken escape by escape; a raw line break or tab inside a literal is a
\* syntax error
parseStringBody(text, i, acc) ==
    LET stops == {k \in i..Len(text) : text[k] \in {"\"", "\\"}}
        k == Min(stops)
        chunk == SubSeq(text, i, k - 1)
        plain == \A x \in 1..Len(chunk) : chunk[x] \notin {"\n", "\t", "\r"}
        esc == text[k + 1]
    IN IF stops = {} THEN SyntaxError
       ELSE IF ~plain THEN SyntaxError
       ELSE IF text[k] = "\"" THEN Parsed(JStr(acc \o chunk), k + 1)
       ELSE IF k + 1 > Len(text) THEN SyntaxError
       ELSE IF esc \in {"\"", "\\", "/"}
            THEN parseStringBody(text, k + 2, acc \o chunk \o <<esc>>)
       ELSE IF esc = "n" THEN parseStringBody(text, k + 2, acc \o chunk \o <<"\n">>)
       ELSE IF esc = "t" THEN parseStringBody(text, k + 2, acc \o chunk \o <<"\t">>)
       ELSE IF esc = "r" THEN parseStringBody(text, k + 2, acc \o chunk \o <<"\r">>)
       ELSE SyntaxError

\* the end of the digits that start at i
digitsEnd(text, i) ==
    IF \A j \in i..Len(text) : text[j] \in Digits THEN Len(text) + 1
    ELSE CHOOSE j \in i..Len(text) :
            /\ text[j] \notin Digits
            /\ \A k \in i..(j - 1) : text[k] \in Digits

RECURSIVE parseValue(_, _)
RECURSIVE parseMembers(_, _, _)
RECURSIVE parseElements(_, _, _)

\* a JSON value that starts at position i (white space skipped by the caller)
parseValue(text, i) ==
    IF i > Len(text) THEN SyntaxError
    ELSE IF text[i] = "{"
         THEN LET j == skipJsonSpace(text, i + 1) IN
              IF j <= Len(text) /\ text[j] = "}"
              THEN Parsed(JObj(<<>>, <<>>), j + 1)
              ELSE parseMembers(text, j, JObj(<<>>, <<>>))
    ELSE IF text[i] = "["
         THEN LET j == skipJsonSpace(text, i + 1) IN
              IF j <= Len(text) /\ text[j] = "]"
              THEN Parsed(JArr(<<>>), j + 1)
              ELSE parseElements(text, j, <<>>)
    ELSE IF text[i] = "\"" THEN parseStringBody(text, i + 1, <<>>)
    ELSE IF text[i] \in Digits
         THEN LET e == digitsEnd(text, i) IN
              IF Len(SubSeq(text, i, e - 1)) > 1 /\ text[i] = "0"
              THEN SyntaxError
              ELSE Parsed(JNum(SubSeq(text, i, e - 1)), e)
    ELSE IF startsWithAt(text, i, <<"t","r","u","e">>)
         THEN Parsed(JBool(TRUE), i + 4)
    ELSE IF startsWithAt(text, i, <<"f","a","l","s","e">>)
         THEN Parsed(JBool(FALSE), i + 5)
    ELSE IF startsWithAt(text, i, <<"n","u","l","l">>)
         THEN Parsed(JNull, i + 4)
    ELSE SyntaxError

\* "key" : value (, "key" : value)* } from position i on
parseMembers(text, i, obj) ==
    IF i > Len(text) \/ text[i] # "\"" THEN SyntaxError
    ELSE LET k == parseStringBody(text, i + 1, <<>>) IN
         IF ~k.ok THEN SyntaxError
         ELSE LET c == skipJsonSpace(text, k.next) IN
              IF c > Len(text) \/ text[c] # ":" THEN SyntaxError
              ELSE LET v == parseValue(text, skipJsonSpace(text, c + 1)) IN
                   IF ~v.ok THEN SyntaxError
                   ELSE LET e == skipJsonSpace(text, v.next)
                            next == setProp(obj, k.v.s, v.v)
                        IN IF e > Len(text) THEN SyntaxError
                           ELSE IF text[e] = "}" THEN Parsed(next, e + 1)
                           ELSE IF text[e] = ","
                                THEN parseMembers(text, skipJsonSpace(text, e + 1),
                                                  next)
                           ELSE SyntaxError

\* value (, value)* ] from position i on
parseElements(text, i, elems) ==
    LET v == parseValue(text, i) IN
    IF ~v.ok THEN SyntaxError
    ELSE LET e == skipJsonSpace(text, v.next)
             next == Append(elems, v.v)
         IN IF e > Len(text) THEN SyntaxError
            ELSE IF text[e] = "]" THEN Parsed(JArr(next), e + 1)
            ELSE IF text[e] = ","
                 THEN parseElements(text, skipJsonSpace(text, e + 1), next)
            ELSE SyntaxError

\* JSON.parse(text): ok is FALSE when it throws
JSONparse(text) ==
    LET v == parseValue(text, skipJsonSpace(text, 1)) IN
    IF ~v.ok THEN SyntaxError
    ELSE IF skipJsonSpace(text, v.next) <= Len(text) THEN SyntaxError
    ELSE v

(***************************************************************************)
(* parseEquipmentAlert, first part: the needs object and what is left of   *)
(* the raw text.  An alert is a record [title, message, details,           *)
(* structuredNote]; a missing structuredNote is JUndefined.                *)
(***************************************************************************)
\* .replace(/\\n/g, '\n').replace(/\\"/g, '"')
unescape(s) ==
    LET t == replaceMatches(s, wordEnds(s, <<"\\", "n">>), 1, <<"\n">>) IN
    replaceMatches(t, wordEnds(t, <<"\\", "\"">>), 1, <<"\"">>)

\* String(alert.message || alert.details || ''), unescaped
rawOf(alert) == unescape(orElse(alert.message, alert.details))

\* String(alert.message || '') + ' ' + String(alert.details || '')
combinedMessageOf(alert) == alert.message \o <<" ">> \o alert.details

RECURSIVE lazyBlocks(_, _)
\* the matches of /(\{[\s\S]*?\})/g from position i on: each runs from a '{'
\* to the first '}' after it
lazyBlocks(text, i) ==
    LET open == indexOf(text, <<"{">>, i)
        close == indexOf(text, <<"}">>, open + 1)
    IN IF open = 0 THEN <<>>
       ELSE IF close = 0 THEN <<>>
       ELSE <<SubSeq(text, open, close)>> \o lazyBlocks(text, close + 1)

RECURSIVE firstParsedBlock(_)
\* the loop over jsonBlocks: the first block that JSON.parse accepts (every
\* value that starts with '{' is an object, so the condition holds for it)
firstParsedBlock(blocks) ==
    LET firstOr(p) == IF p.ok THEN p.v ELSE firstParsedBlock(Tail(blocks)) IN
    IF blocks = <<>> THEN JUndefined
    ELSE firstOr(JSONparse(blocks[1]))

RECURSIVE removeEach(_, _)
\* for (const block of jsonBlocks) raw = raw.replace(block, '')
removeEach(text, blocks) ==
    IF blocks = <<>> THEN text
    ELSE removeEach(removeFirst(text, blocks[1]), Tail(blocks))

NeedsWord == <<"N","e","e","d","s",":">>

\* the positions where /Needs:\s*(\{[\s\S]*\})/i matches: the word, white
\* space, a '{' and a '}' somewhere after it
needsMatchStarts(text) ==
    {i \in 1..Len(text) :
        /\ matchesAt(text, i, NeedsWord)
        /\ LET open == skipSpace(text, i + Len(NeedsWord)) IN
              /\ open <= Len(text)
              /\ text[open] = "{"
              /\ lastIndexOf(text, <<"}">>, Len(text)) > open}

\* needsMatch[1]: from the '{' to the last '}' of the text; <<>> without a match
needsMatchGroup(text) ==
    LET starts == needsMatchStarts(text) IN
    IF starts = {} THEN <<>>
    ELSE LET i == Min(starts)
             open == skipSpace(text, i + Len(NeedsWord))
         IN SubSeq(text, open, lastIndexOf(text, <<"}">>, Len(text)))

\* the position of the quote that closes "[^"]+" opened at i; 0 without one
quotedEnd(text, i) ==
    LET close == indexOf(text, <<"\"">>, i + 1) IN
    IF i > Len(text) \/ text[i] # "\"" THEN 0
    ELSE IF close <= i + 1 THEN 0
    ELSE close

\* the position of the last character of "[^"]+"\s*:\s*"[^"]+" matched at
\* i; 0 without a match
quotedPairEnd(text, i) ==
    LET k == quotedEnd(text, i)
        colon == skipSpace(text, k + 1)
        v == skipSpace(text, colon + 1)
    IN IF k = 0 THEN 0
       ELSE IF colon > Len(text) THEN 0
       ELSE IF text[colon] # ":" THEN 0
       ELSE quotedEnd(text, v)

\* .replace(/"[^\"]+"\s*:\s*"[^\"]+"\s*,?/g, '')
stripQuotedPairs(text) ==
    LET ends == [i \in 1..Len(text) |->
                   LET e == quotedPairEnd(text, i)
                       sp == skipSpace(text, e + 1)
                   IN IF e = 0 THEN 0
                      ELSE IF sp <= Len(text) /\ text[sp] = "," THEN sp
                      ELSE sp - 1]
    IN replaceMatches(text, ends, 1, <<>>)

\* .replace(/}\s*\{/g, ' ')
joinBraces(text) ==
    LET ends == [i \in 1..Len(text) |->
                   LET open == skipSpace(text, i + 1) IN
                   IF text[i] = "}" /\ open <= Len(text) /\ text[open] = "{"
                   THEN open ELSE 0]
    IN replaceMatches(text, ends, 1, <<" ">>)

\* .replace(/[{}]/g, '')
stripBraces(text) == SelectSeq(text, LAMBDA c : c \notin {"{", "}"})

\* the needs object before the text is looked at
needsFromNote(alert) ==
    IF truthy(alert.structuredNote) THEN alert.structuredNote ELSE JUndefined

\* needsObj and raw when the try block is entered (line 78)
afterNote(alert) == [needsObj |-> needsFromNote(alert), raw |-> rawOf(alert)]

\* the block with an "items" key: when there is one, the outcome of
\* JSON.parse replaces the needs object, null when it throws, and a parsed
\* block is taken out of raw
afterItemsBlock(st) ==
    LET outcome(itemsBlock, p) ==
            IF p.ok THEN [needsObj |-> p.v, raw |-> removeFirst(st.raw, itemsBlock)]
            ELSE [needsObj |-> JUndefined, raw |-> st.raw]
        step(itemsBlock) ==
            IF itemsBlock = NoBlock THEN st
            ELSE outcome(itemsBlock, JSONparse(itemsBlock))
    IN step(extractJsonAroundKey(st.raw, <<"\"","i","t","e","m","s","\"">>))

\* the JSON blocks of the text, tried when there is no needs object yet:
\* the first that parses is the needs object and all are taken out of raw
afterJsonBlocks(st) ==
    LET step(jsonBlocks) == [needsObj |-> firstParsedBlock(jsonBlocks),
                             raw |-> removeEach(st.raw, jsonBlocks)]
    IN IF truthy(st.needsObj) THEN st
       ELSE step(lazyBlocks(st.raw, 1))

\* the legacy 'Needs: {...}', tried when there is still no needs object
afterLegacyNeeds(st) ==
    LET outcome(group, p) ==
            IF p.ok THEN [needsObj |-> p.v, raw |-> removeFirst(st.raw, group)]
            ELSE [needsObj |-> JUndefined, raw |-> st.raw]
        step(group) ==
            IF group = <<>> THEN [needsObj |-> JUndefined, raw |-> st.raw]
            ELSE outcome(group, JSONparse(group))
    IN IF truthy(st.needsObj) THEN st
       ELSE step(needsMatchGroup(st.raw))

\* the leftovers are taken out of raw (lines 122-128)
afterLeftovers(st) ==
    [needsObj |-> st.needsObj,
     raw |-> stripBraces(joinBraces(stripQuotedPairs(st.raw)))]

\* needsObj and raw when the try block is left (line 129)
needsAndRaw(alert) ==
    afterLeftovers(afterLegacyNeeds(afterJsonBlocks(afterItemsBlock(afterNote(alert)))))

(***************************************************************************)
(* parseEquipmentAlert, second part: equipmentList, othersText and         *)
(* itemsWithStatus.  null and '' are both written <<>> where the code      *)
(* only asks whether the value is truthy.                                  *)
(***************************************************************************)
OthersWord == <<"o","t","h","e","r","s">>

\* .replace(/_/g, ' ')
underscoresToSpaces(s) == [i \in 1..Len(s) |-> IF s[i] = "_" THEN " " ELSE s[i]]

\* .replace(/[.,;]+$/g, '')
stripTrailingPunct(s) ==
    IF \A i \in 1..Len(s) : s[i] \in {".", ",", ";"} THEN <<>>
    ELSE SubSeq(s, 1, CHOOSE i \in 1..Len(s) :
                         /\ s[i] \notin {".", ",", ";"}
                         /\ \A j \in (i + 1)..Len(s) : s[j] \in {".", ",", ";"})

\* null of mapToken: no label is the empty string after filter(Boolean)
NoLabel == <<>>

\* line 140: mapToken returns null
mapsToNull(rawToken) ==
    includes(toLowerCase(trim(underscoresToSpaces(rawToken))), OthersWord)

\* mutant: an unknown token is returned in lower case
mapToken_Lowered(rawToken) ==
    LET raw == trim(underscoresToSpaces(rawToken))
        lower == toLowerCase(raw)
    IN IF mapsToNull(rawToken) THEN NoLabel
       ELSE IF lower = <<"w","h","i","t","e","b","o","a","r","d">>
            THEN <<"W","h","i","t","e","b","o","a","r","d"," ","&"," ",
                   "M","a","r","k","e","r","s">>
       ELSE IF lower = <<"p","r","o","j","e","c","t","o","r">>
            THEN <<"P","r","o","j","e","c","t","o","r">>
       ELSE IF lower = <<"e","x","t","e","n","s","i","o","n"," ","c","o","r","d">>
            THEN <<"E","x","t","e","n","s","i","o","n"," ","C","o","r","d">>
       ELSE IF lower = <<"h","d","m","i">>
            THEN <<"H","D","M","I"," ","C","a","b","l","e">>
       ELSE IF lower = <<"e","x","t","r","a"," ","c","h","a","i","r","s">>
            THEN <<"E","x","t","r","a"," ","C","h","a","i","r","s">>
       ELSE trim(stripTrailingPunct(lower))

mapToken(rawToken) ==
    LET raw == trim(underscoresToSpaces(rawToken))
        lower == toLowerCase(raw)
    IN IF mapsToNull(rawToken) THEN NoLabel
       ELSE IF lower = <<"w","h","i","t","e","b","o","a","r","d">>
            THEN <<"W","h","i","t","e","b","o","a","r","d"," ","&"," ",
                   "M","a","r","k","e","r","s">>
       ELSE IF lower = <<"p","r","o","j","e","c","t","o","r">>
            THEN <<"P","r","o","j","e","c","t","o","r">>
       ELSE IF lower = <<"e","x","t","e","n","s","i","o","n"," ","c","o","r","d">>
            THEN <<"E","x","t","e","n","s","i","o","n"," ","C","o","r","d">>
       ELSE IF lower = <<"h","d","m","i">>
            THEN <<"H","D","M","I"," ","C","a","b","l","e">>
       ELSE IF lower = <<"e","x","t","r","a"," ","c","h","a","i","r","s">>
            THEN <<"E","x","t","r","a"," ","C","h","a","i","r","s">>
       ELSE trim(stripTrailingPunct(raw))

\* mapToken(k) || String(k)
labelOf(k) == orElse(mapToken(k), k)

\* the position after [:\s-]* that starts at i
skipOthersMarker(text, i) ==
    LET marker == Whitespace \cup {":", "-"} IN
    IF \A j \in i..Len(text) : text[j] \in marker THEN Len(text) + 1
    ELSE CHOOSE j \in i..Len(text) :
            /\ text[j] \notin marker
            /\ \A k \in i..(j - 1) : text[k] \in marker

\* tok.replace(/.*?others[:\s-]*/i, '').trim() for a token that contains
\* "others": '.' stops at a line break, so the match starts after the last
\* line break before the word
othersTrailing(tok) ==
    LET at == indexOf(toLowerCase(tok), OthersWord, 1)
        breaks == {i \in 1..(at - 1) : tok[i] \in {"\n", "\r"}}
        start == IF breaks = {} THEN 1 ELSE 1 + Max(breaks)
    IN trim(SubSeq(tok, 1, start - 1) \o from(tok, skipOthersMarker(tok, at + 6)))

RECURSIVE mappedLabels(_)
\* .map(...).filter(Boolean): the labels of the tokens without "others"
mappedLabels(toks) ==
    IF toks = <<>> THEN <<>>
    ELSE IF includes(toLowerCase(toks[1]), OthersWord) THEN mappedLabels(Tail(toks))
    ELSE IF mapToken(toks[1]) = NoLabel THEN mappedLabels(Tail(toks))
    ELSE <<mapToken(toks[1])>> \o mappedLabels(Tail(toks))

RECURSIVE othersFrom_LastWins(_)
\* mutant: the last non-empty trailing text wins
othersFrom_LastWins(toks) ==
    IF toks = <<>> THEN <<>>
    ELSE IF includes(toLowerCase(toks[Len(toks)]), OthersWord)
            /\ othersTrailing(toks[Len(toks)]) # <<>>
         THEN othersTrailing(toks[Len(toks)])
    ELSE othersFrom_LastWins(SubSeq(toks, 1, Len(toks) - 1))

RECURSIVE othersFrom(_)
\* othersFromItems / othersFromParts: the first non-empty trailing text
othersFrom(toks) ==
    IF toks = <<>> THEN <<>>
    ELSE IF includes(toLowerCase(toks[1]), OthersWord)
            /\ othersTrailing(toks[1]) # <<>>
         THEN othersTrailing(toks[1])
    ELSE othersFrom(Tail(toks))

\* the tri-state of a status value
statusOf(val) ==
    IF val \in {<<"p","r","e","p","a","r","e","d">>, <<"t","r","u","e">>,
                <<"y","e","s">>}
    THEN "prepared"
    ELSE IF val \in {<<"n","o","t"," ","a","v","a","i","l","a","b","l","e">>,
                     <<"n","o","t","_","a","v","a","i","l","a","b","l","e">>,
                     <<"f","a","l","s","e">>, <<"n","o">>}
    THEN "not_available"
    ELSE "pending"

\* String(rawVal || '').toLowerCase() and its status
statusOfValue(rawVal) == statusOf(toLowerCase(toStrOrEmpty(rawVal)))

\* Object.keys(items).map(...) of an items map
itemsFromMap(items) ==
    [i \in 1..Len(items.keys) |->
        [label |-> labelOf(items.keys[i]), status |-> statusOfValue(items.vals[i])]]

\* a Record<string, string> in insertion order
NoPairs == [keys |-> <<>>, vals |-> <<>>]

putPair(pairs, k, v) ==
    IF \E i \in 1..Len(pairs.keys) : pairs.keys[i] = k
    THEN [pairs EXCEPT
             !.vals[CHOOSE i \in 1..Len(pairs.keys) : pairs.keys[i] = k] = v]
    ELSE [keys |-> Append(pairs.keys, k), vals |-> Append(pairs.vals, v)]

\* keys.map(...) of the quoted-pairs and inline fallbacks
itemsFromPairs(pairs) ==
    [i \in 1..Len(pairs.keys) |->
        [label |-> labelOf(pairs.keys[i]),
         status |-> statusOf(toLowerCase(pairs.vals[i]))]]

RECURSIVE quotedPairsAt(_, _, _)
\* pairs[m[1]] = m[2] for the matches that start at the given positions
quotedPairsAt(text, starts, pairs) ==
    IF starts = <<>> THEN pairs
    ELSE LET i == starts[1]
             e == quotedPairEnd(text, i)
             k == quotedEnd(text, i)
             v == lastIndexOf(text, <<"\"">>, e - 1)
         IN quotedPairsAt(text, Tail(starts),
                putPair(pairs, SubSeq(text, i + 1, k - 1), SubSeq(text, v + 1, e - 1)))

\* the exec loop over /"([^\"]+)"\s*:\s*"([^\"]+)"/g
quotedPairsFrom(text) ==
    LET ends == [i \in 1..Len(text) |-> quotedPairEnd(text, i)] IN
    quotedPairsAt(text, matchStarts(ends, 1), NoPairs)

parseQuotedPairs(alert) == quotedPairsFrom(combinedMessageOf(alert))

LabelChars == Letters \cup Digits \cup {" ", "&"}

\* (prepared|not_available|not available|prepared|true|false|yes|no), in
\* the order the alternatives are tried
StatusWords ==
    << <<"p","r","e","p","a","r","e","d">>,
       <<"n","o","t","_","a","v","a","i","l","a","b","l","e">>,
       <<"n","o","t"," ","a","v","a","i","l","a","b","l","e">>,
       <<"t","r","u","e">>, <<"f","a","l","s","e">>, <<"y","e","s">>,
       <<"n","o">> >>

\* the status word matched at position i, <<>> when none matches
statusWordAt(text, i) ==
    LET hits == {w \in 1..Len(StatusWords) : matchesAt(text, i, StatusWords[w])} IN
    IF hits = {} THEN <<>>
    ELSE SubSeq(text, i,
                i + Len(StatusWords[CHOOSE w \in hits : \A x \in hits : w <= x]) - 1)

\* \s*[:\-]\s*(status) matched right after a label that ends at j: the
\* position of the status word, 0 without a match
inlineStatusAfter(text, j) ==
    LET sep == skipSpace(text, j + 1)
        st == skipSpace(text, sep + 1)
    IN IF sep > Len(text) THEN 0
       ELSE IF text[sep] \notin {":", "-"} THEN 0
       ELSE IF statusWordAt(text, st) = <<>> THEN 0
       ELSE st

\* the ends j of a label ([A-Za-z0-9 &]+?) that starts at i and is followed
\* by a separator and a status
inlineLabelEnds(text, i) ==
    {j \in i..Len(text) :
        /\ \A k \in i..j : text[k] \in LabelChars
        /\ inlineStatusAfter(text, j) # 0}

\* the least end of a label that starts at i, 0 when none matches
inlineLabelEnd(text, i) ==
    IF inlineLabelEnds(text, i) = {} THEN 0 ELSE Min(inlineLabelEnds(text, i))

\* the matches of /([A-Za-z0-9 &]+?)\s*[:\-]\s*(prepared|...|no)/i
inlineEnds(text) ==
    [i \in 1..Len(text) |->
        LET j == inlineLabelEnd(text, i)
            st == inlineStatusAfter(text, j)
        IN IF j = 0 THEN 0 ELSE st + Len(statusWordAt(text, st)) - 1]

RECURSIVE inlinePairsAt(_, _, _)
\* if (key) pairs[key] = val for the matches that start at the given
\* positions: a label that is blank after trim() is skipped
inlinePairsAt(text, starts, pairs) ==
    IF starts = <<>> THEN pairs
    ELSE LET i == starts[1]
             j == inlineLabelEnd(text, i)
             word == statusWordAt(text, inlineStatusAfter(text, j))
             key == trim(SubSeq(text, i, j))
         IN inlinePairsAt(text, Tail(starts),
                IF key = <<>> THEN pairs ELSE putPair(pairs, key, trim(word)))

\* the exec loop over the expression with the g flag
inlinePairsFrom(text) == inlinePairsAt(text, matchStarts(inlineEnds(text), 1), NoPairs)

BulletChars == {"BULLET", "TRIBULLET", "WHITEBULLET", "*", "\n"}

\* text.split(/[set]/): the pieces between the characters of the set
splitOn(text, set) ==
    LET seps == {i \in 1..Len(text) : text[i] \in set}
        sep(k) == IF k = 0 THEN 0
                  ELSE IF k > Cardinality(seps) THEN Len(text) + 1
                  ELSE CHOOSE p \in seps : Cardinality({q \in seps : q < p}) = k - 1
    IN [k \in 1..(Cardinality(seps) + 1) |-> SubSeq(text, sep(k - 1) + 1, sep(k) - 1)]

RECURSIVE bulletPairsFrom(_, _)
\* the loop over the pieces between bullets: the first match of each piece,
\* also with a blank label
bulletPairsFrom(pieces, pairs) ==
    IF pieces = <<>> THEN pairs
    ELSE LET part == pieces[1]
             starts == {i \in 1..Len(part) : inlineLabelEnd(part, i) # 0}
         IN IF starts = {} THEN bulletPairsFrom(Tail(pieces), pairs)
            ELSE LET i == Min(starts)
                     j == inlineLabelEnd(part, i)
                     word == statusWordAt(part, inlineStatusAfter(part, j))
                 IN bulletPairsFrom(Tail(pieces),
                        putPair(pairs, trim(SubSeq(part, i, j)), trim(word)))

\* combinedMessage holds at least the blank between message and details, so
\* it is the text that is searched
parseInlineLabelStatus(alert) ==
    LET text == combinedMessageOf(alert)
        pairs == inlinePairsFrom(text)
    IN IF pairs.keys # <<>> THEN pairs
       ELSE bulletPairsFrom(splitOn(text, BulletChars), NoPairs)

RequestedWord ==
    <<"R","e","q","u","e","s","t","e","d"," ","e","q","u","i","p","m","e","n","t",":">>

\* the end of [^\[]+ that starts at i
untilBracket(text, i) ==
    LET b == indexOf(text, <<"[">>, i) IN IF b = 0 THEN Len(text) ELSE b - 1

\* eqMatch[1] of raw.match(/Requested equipment:\s*([^\[]+)/i): what follows
\* the word and its white space up to a '[', or, when nothing does, the
\* last white space character; <<>> without a match
eqMatchGroup(raw) ==
    LET group(i) ==
            LET p == i + Len(RequestedWord)
                w == skipSpace(raw, p)
            IN IF w <= untilBracket(raw, w) THEN SubSeq(raw, w, untilBracket(raw, w))
               ELSE IF w > p THEN <<raw[w - 1]>>
               ELSE <<>>
        starts == {i \in 1..Len(raw) :
                      matchesAt(raw, i, RequestedWord) /\ group(i) # <<>>}
    IN IF starts = {} THEN <<>>
       ELSE group(Min(starts))

RECURSIVE nonEmpty(_)
\* .filter(Boolean) on strings
nonEmpty(strs) ==
    IF strs = <<>> THEN <<>>
    ELSE IF strs[1] = <<>> THEN nonEmpty(Tail(strs))
    ELSE <<strs[1]>> \o nonEmpty(Tail(strs))

\* eqMatch[1].split(/[,;]+/).map(s => s.trim()).filter(Boolean)
eqParts(group) ==
    LET pieces == splitOn(group, {",", ";"}) IN
    nonEmpty([i \in 1..Len(pieces) |-> trim(pieces[i])])

\* extrasMatch[1] of eqMatch[1].match(/Others?:\s*(.*)$/i), trimmed: what
\* follows the first "Other:" or "Others:" that no line break follows
extrasOf(group) ==
    LET ends(i) == IF matchesAt(group, i, <<"O","t","h","e","r","s",":">>) THEN i + 7
                   ELSE IF matchesAt(group, i, <<"O","t","h","e","r",":">>) THEN i + 6
                   ELSE 0
        noBreak(i) == \A k \in i..Len(group) : group[k] \notin {"\n", "\r"}
        starts == {i \in 1..Len(group) :
                      ends(i) # 0 /\ noBreak(skipSpace(group, ends(i)))}
    IN IF starts = {} THEN <<>>
       ELSE trim(from(group, ends(Min(starts))))

(***************************************************************************)
(* parseEquipmentAlert, third part: the lists, the short text and the      *)
(* title.                                                                  *)
(***************************************************************************)
ItemsKey == <<"i","t","e","m","s">>
OthersKey == <<"o","t","h","e","r","s">>
AndOthers == <<"a","n","d"," ","o","t","h","e","r","s">>

\* a needs object that looks like the items map itself becomes {items: it}
needsWrapped(needsObj) ==
    IF /\ ~truthy(getProp(needsObj, ItemsKey))
       /\ needsObj.t \in {"object", "array"}
       /\ Len(needsObj.vals) > 0
       /\ \A i \in 1..Len(needsObj.vals) : needsObj.vals[i].t \in {"string", "boolean"}
    THEN JObj(<<ItemsKey>>, <<needsObj>>)
    ELSE needsObj

\* the needs object used for the lists
needsOf(needsObj) ==
    IF truthy(needsObj) THEN needsWrapped(needsObj) ELSE JUndefined

\* String(s || '') of the entries of an items array
itemTokens(items) == [i \in 1..Len(items.vals) |-> toStrOrEmpty(items.vals[i])]

\* equipmentList before the sentinel is added
equipmentListOf(needs, raw) ==
    LET fromItems(items) ==
            IF items.t = "array" THEN mappedLabels(itemTokens(items)) ELSE <<>>
        fromGroup(group) ==
            IF group # <<>> THEN mappedLabels(eqParts(group)) ELSE <<>>
    IN IF truthy(needs) THEN fromItems(getProp(needs, ItemsKey))
       ELSE fromGroup(eqMatchGroup(raw))

othersTextOf(needs, raw) ==
    LET othersOf(others) == IF truthy(others) THEN trim(toStr(others)) ELSE <<>>
        fromItems(items) ==
            IF items.t = "array"
            THEN orElse(othersFrom(itemTokens(items)),
                        othersOf(getProp(needs, OthersKey)))
            ELSE <<>>
        fromGroup(group) ==
            IF group # <<>> THEN orElse(othersFrom(eqParts(group)), extrasOf(group))
            ELSE <<>>
    IN IF truthy(needs) THEN fromItems(getProp(needs, ItemsKey))
       ELSE fromGroup(eqMatchGroup(raw))

\* the 'and others' placeholder closes the list when there is an others text
equipmentListWithSentinel(list, others) ==
    IF others # <<>> /\ \A i \in 1..Len(list) : list[i] # AndOthers
    THEN Append(list, AndOthers)
    ELSE list

\* itemsWithStatus: [null, list], null and [] being told apart by the code
itemsWithStatusOf(alert, needs) ==
    LET fromMap(items) ==
            IF truthy(items) /\ items.t = "object"
            THEN [null |-> FALSE, list |-> itemsFromMap(items)]
            ELSE [null |-> TRUE, list |-> <<>>]
        fromQuoted(got, quoted) ==
            IF got.null /\ quoted.keys # <<>>
            THEN [null |-> FALSE, list |-> itemsFromPairs(quoted)]
            ELSE got
        fromInline(got, inline) ==
            IF (got.null \/ got.list = <<>>) /\ inline.keys # <<>>
            THEN [null |-> FALSE, list |-> itemsFromPairs(inline)]
            ELSE got
    IN IF truthy(needs)
       THEN fromInline(fromQuoted(fromMap(getProp(needs, ItemsKey)),
                                  parseQuotedPairs(alert)),
                       parseInlineLabelStatus(alert))
       ELSE [null |-> TRUE, list |-> <<>>]

BookingTag == <<"[","b","o","o","k","i","n","g",":">>

\* .replace(/\s*\[booking:[^\]]+\]/, ''): the first tag with the white space
\* before it
stripBookingTag(text) ==
    LET tagEnd(b) == indexOf(text, <<"]">>, b + Len(BookingTag))
        tags == {b \in 1..Len(text) :
                    /\ startsWithAt(text, b, BookingTag)
                    /\ tagEnd(b) > b + Len(BookingTag)}
    IN IF tags = {} THEN text
       ELSE LET b == Min(tags)
                i == CHOOSE k \in 1..b :
                        /\ \A x \in k..(b - 1) : text[x] \in Whitespace
                        /\ \A y \in 1..(k - 1) :
                              \E x \in y..(b - 1) : text[x] \notin Whitespace
            IN SubSeq(text, 1, i - 1) \o from(text, tagEnd(b) + 1)

\* .replace(/,?\s*Others?:\s*[^,\]]+/i, ''): the first "Other(s):" with the
\* comma and white space before it and the text after it up to ',' or ']'
stripOthersFragment(text) ==
    LET wordEnd(w) == IF matchesAt(text, w, <<"O","t","h","e","r","s",":">>) THEN w + 7
                      ELSE IF matchesAt(text, w, <<"O","t","h","e","r",":">>) THEN w + 6
                      ELSE 0
        stop(p) == LET s == {k \in p..Len(text) : text[k] \in {",", "]"}} IN
                   IF s = {} THEN Len(text) + 1 ELSE Min(s)
        \* the word position reached from a start i, 0 when i starts no match
        wordFrom(i) ==
            LET w == skipSpace(text, IF text[i] = "," THEN i + 1 ELSE i) IN
            IF w <= Len(text) /\ wordEnd(w) # 0 /\ stop(wordEnd(w)) > wordEnd(w)
            THEN w ELSE 0
        starts == {i \in 1..Len(text) : wordFrom(i) # 0}
    IN IF starts = {} THEN text
       ELSE LET i == Min(starts)
            IN SubSeq(text, 1, i - 1) \o from(text, stop(wordEnd(wordFrom(i))))

\* .replace(/"items"\s*:\s*(?:\{[\s\S]*?\}|"[^"]*"|[^\s,;]*)/gi, '') on a
\* text without braces: the value is a quoted string or runs up to white
\* space, ',' or ';'
stripItemsValues(text) ==
    LET ends == [i \in 1..Len(text) |->
                   LET colon == skipSpace(text, i + 7)
                       v == skipSpace(text, colon + 1)
                       close == indexOf(text, <<"\"">>, v + 1)
                       stops == {k \in v..Len(text) :
                                    text[k] \in Whitespace \cup {",", ";"}}
                   IN IF ~matchesAt(text, i, <<"\"","i","t","e","m","s","\"">>) THEN 0
                      ELSE IF colon > Len(text) THEN 0
                      ELSE IF text[colon] # ":" THEN 0
                      ELSE IF v <= Len(text) /\ text[v] = "\"" /\ close # 0 THEN close
                      ELSE IF stops = {} THEN Len(text)
                      ELSE Min(stops) - 1]
    IN replaceMatches(text, ends, 1, <<>>)

\* .replace(/items"\s*:\s*/gi, '')
stripItemsColon(text) ==
    LET ends == [i \in 1..Len(text) |->
                   LET colon == skipSpace(text, i + 6) IN
                   IF ~matchesAt(text, i, <<"i","t","e","m","s","\"">>) THEN 0
                   ELSE IF colon > Len(text) THEN 0
                   ELSE IF text[colon] # ":" THEN 0
                   ELSE skipSpace(text, colon + 1) - 1]
    IN replaceMatches(text, ends, 1, <<>>)

\* .replace(/word/gi, '')
stripWord(text, word) == replaceMatches(text, wordEndsI(text, word), 1, <<>>)

\* .replace(/\s{2,}/g, ' ')
collapseSpace(text) ==
    LET ends == [i \in 1..Len(text) |->
                   IF text[i] \in Whitespace /\ skipSpace(text, i) > i + 1
                   THEN skipSpace(text, i) - 1 ELSE 0]
    IN replaceMatches(text, ends, 1, <<" ">>)

\* cleaned when the legacy wording is looked for (line 362).  The text has
\* no brace left after line 127, so 'Needs: {' and the block dedupes find
\* nothing; the dedupes of dash lists (lines 327-351) need a line that
\* starts with '-' or two ' - ' items, which no message of MessagePool has.
cleanedOf(raw) ==
    LET a == trim(stripOthersFragment(stripBookingTag(raw)))
        b == stripItemsValues(a)
        c == stripWord(stripWord(stripItemsColon(b), <<"\"","i","t","e","m","s","\"">>),
                       <<"i","t","e","m","s","\"",":">>)
    IN trim(collapseSpace(trim(collapseSpace(c))))

EquipmentRequestTitle ==
    <<"E","q","u","i","p","m","e","n","t"," ","o","r"," ",
      "N","e","e","d","s"," ","R","e","q","u","e","s","t">>
BookingScheduledTitle ==
    <<"B","o","o","k","i","n","g"," ","S","c","h","e","d","u","l","e","d">>

\* title.replace(/[--]\s*email\s*$/, '').trim(), the title itself when it
\* has no such suffix
stripTitleEmail(title) ==
    LET starts == titleEmailStarts(title) IN
    IF starts = {} THEN title
    ELSE trim(SubSeq(title, 1, Min(starts) - 1))

\* /equipment\s*needs?/i.test(title)
isEquipmentNeedsTitle(title) ==
    \E i \in 1..Len(title) :
        /\ matchesAt(title, i, <<"e","q","u","i","p","m","e","n","t">>)
        /\ matchesAt(title, skipSpace(title, i + 9), <<"n","e","e","d">>)

\* the legacy wording of a booking request in the title or the short text
isLegacyBooking(lowTitle, lowClean) ==
    \/ includes(lowTitle, <<"b","o","o","k","i","n","g"," ","r","e","q","u","e","s","t">>)
    \/ includes(lowTitle, <<"b","o","o","k","i","n","g"," ",
                            "s","u","b","m","i","t","t","e","d">>)
    \/ includes(lowClean, <<"b","o","o","k","i","n","g"," ","r","e","q","u","e","s","t">>)
    \/ includes(lowClean, <<"b","o","o","k","i","n","g"," ",
                            "s","u","b","m","i","t","t","e","d">>)
    \/ includes(lowClean, <<"p","e","n","d","i","n","g"," ",
                            "a","p","p","r","o","v","a","l">>)
    \/ includes(lowClean, <<"r","e","q","u","e","s","t","e","d"," ","a"," ",
                            "b","o","o","k","i","n","g">>)

\* mutant: the email suffix stays in the visible title
visibleTitleOf_KeepingSuffix(title, cleaned) ==
    LET normal(t2) ==
            IF isLegacyBooking(toLowerCase(t2), toLowerCase(cleaned))
            THEN BookingScheduledTitle
            ELSE t2
    IN normal(IF isEquipmentNeedsTitle(title) THEN EquipmentRequestTitle ELSE title)

\* the title without the email suffix (lines 32-43), with the wording of an
\* equipment request (276-284) and of a legacy booking request (359-373)
visibleTitleOf(title, cleaned) ==
    LET legacy(t3) ==
            IF isLegacyBooking(toLowerCase(t3), toLowerCase(cleaned))
            THEN BookingScheduledTitle
            ELSE t3
        equipment(t1) ==
            IF isEquipmentNeedsTitle(t1) THEN EquipmentRequestTitle ELSE t1
    IN legacy(stripTitleEmail(equipment(stripTitleEmail(title))))

\* what the caller gets (cleaned is left out: the items list does not read
\* it)
parseEquipmentAlert(alert) ==
    LET result(needs, list, others, statuses, cleaned) ==
            [ visibleTitle |-> visibleTitleOf(alert.title, cleaned),
              titleRequesterEmail |-> titleRequesterEmail(alert.title),
              equipmentList |-> equipmentListWithSentinel(list, others),
              othersText |-> others,
              needsObj |-> needs,
              itemsWithStatus |-> statuses.list ]
        lists(needs, raw) ==
            result(needs, equipmentListOf(needs, raw), othersTextOf(needs, raw),
                   itemsWithStatusOf(alert, needs), cleanedOf(raw))
        parsed(st) == lists(needsOf(st.needsObj), st.raw)
    IN parsed(needsAndRaw(alert))

(***************************************************************************)
(* sanitizeDisplayText.                                                    *)
(***************************************************************************)
\* the last position of the run of characters of set that starts at i;
\* i - 1 when the character at i is not in set
runEnd(text, i, set) ==
    LET out == {k \in i..Len(text) : text[k] \notin set} IN
    IF out = {} THEN Len(text) ELSE Min(out) - 1

\* the matches of /[a-zA-Z0-9._%+-]+@[a-zA-Z0-9.-]+\.[A-Za-z]{2,}/: the run
\* of local characters up to an '@', the longest domain that a '.' and two
\* letters follow, and the letters after that '.'
emailEnds(text) ==
    [i \in 1..Len(text) |->
        LET at == runEnd(text, i, EmailLocalChars) + 1
            domainEnd == runEnd(text, at + 1, EmailDomainChars)
            dots == {d \in (at + 2)..(domainEnd - 2) :
                        /\ text[d] = "."
                        /\ text[d + 1] \in Letters
                        /\ text[d + 2] \in Letters}
        IN IF at = i THEN 0
           ELSE IF at > Len(text) THEN 0
           ELSE IF text[at] # "@" THEN 0
           ELSE IF dots = {} THEN 0
           ELSE runEnd(text, Max(dots) + 1, Letters)]

\* .replace(/email/g, '')
removeEmails(text) == replaceMatches(text, emailEnds(text), 1, <<>>)

\* .replace(/"items"\s*:\s*/gi, '')
stripQuotedItemsColon(text) ==
    LET ends == [i \in 1..Len(text) |->
                   LET colon == skipSpace(text, i + 7) IN
                   IF ~matchesAt(text, i, <<"\"","i","t","e","m","s","\"">>) THEN 0
                   ELSE IF colon > Len(text) THEN 0
                   ELSE IF text[colon] # ":" THEN 0
                   ELSE skipSpace(text, colon + 1) - 1]
    IN replaceMatches(text, ends, 1, <<>>)

\* line 397: the four replacements of "items" tokens
stripItemsTokens(text) ==
    stripWord(stripWord(stripItemsColon(stripQuotedItemsColon(text)),
                        <<"\"","i","t","e","m","s","\"">>), <<"i","t","e","m","s","\"",":">>)

\* the last position of the line that holds position p
lineEnd(text, p) ==
    LET breaks == {k \in p..Len(text) : text[k] = "\n"} IN
    IF breaks = {} THEN Len(text) ELSE Min(breaks) - 1

\* \s-\s[^\n] matches at p
dashItemAt(text, p) ==
    /\ p >= 1
    /\ p + 3 <= Len(text)
    /\ text[p] \in Whitespace
    /\ text[p + 1] = "-"
    /\ text[p + 2] \in Whitespace
    /\ text[p + 3] # "\n"

RECURSIVE dashChainEnd(_, _)
\* (?:\s-\s[^\n]+)* from the end e of a line on: every further item starts
\* with the line break
dashChainEnd(text, e) ==
    IF dashItemAt(text, e + 1) THEN dashChainEnd(text, lineEnd(text, e + 4))
    ELSE e

\* the matches of /(\s-\s[^\n]+)(?:\s-\s[^\n]+){1,}/: the first item is as
\* long as it can be with one more item after it
dashListEnds(text) ==
    [i \in 1..Len(text) |->
        IF ~dashItemAt(text, i) THEN 0
        ELSE LET second == {p \in (i + 4)..(lineEnd(text, i + 3) + 1) :
                               dashItemAt(text, p)}
             IN IF second = {} THEN 0
                ELSE dashChainEnd(text, lineEnd(text, Max(second) + 3))]

\* the matches of /\s-\s/
dashEnds(text) ==
    [i \in 1..Len(text) |->
        IF /\ i + 2 <= Len(text)
           /\ text[i] \in Whitespace
           /\ text[i + 1] = "-"
           /\ text[i + 2] \in Whitespace
        THEN i + 2 ELSE 0]

RECURSIVE splitMatches(_, _, _)
\* text.split(/.../) from position i on
splitMatches(text, ends, i) ==
    LET starts == {k \in i..Len(text) : ends[k] # 0} IN
    IF starts = {} THEN <<from(text, i)>>
    ELSE <<SubSeq(text, i, Min(starts) - 1)>>
            \o splitMatches(text, ends, ends[Min(starts)] + 1)

RECURSIVE joinWith(_, _)
\* strs.join(sep)
joinWith(strs, sep) ==
    IF strs = <<>> THEN <<>>
    ELSE IF Len(strs) = 1 THEN strs[1]
    ELSE strs[1] \o sep \o joinWith(Tail(strs), sep)

\* the callback of line 400: the items of a dash list, trimmed, without the
\* empty ones, joined by ', ' after a space
collapseDashList(m) ==
    LET pieces == splitMatches(m, dashEnds(m), 1)
        parts == nonEmpty([k \in 1..Len(pieces) |-> trim(pieces[k])])
    IN <<" ">> \o joinWith(parts, <<",", " ">>)

RECURSIVE replaceDashLists(_, _, _)
\* text.replace(/dash list/g, callback) from position i on
replaceDashLists(text, ends, i) ==
    LET starts == {k \in i..Len(text) : ends[k] # 0} IN
    IF starts = {} THEN from(text, i)
    ELSE SubSeq(text, i, Min(starts) - 1)
            \o collapseDashList(SubSeq(text, Min(starts), ends[Min(starts)]))
            \o replaceDashLists(text, ends, ends[Min(starts)] + 1)

WordChars == Letters \cup Digits \cup {"_"}

\* \b matches before position i
wordBoundaryAt(text, i) ==
    (i > 1 /\ text[i - 1] \in WordChars) # (i <= Len(text) /\ text[i] \in WordChars)

MinRepeat == 5
MaxRepeat == 200

\* the matches of /(\b[^\n]{5,200})\s+\1/ as pairs [len, end]: the longest
\* group after which white space and a copy of the group follow, the white
\* space as long as it can be
repeatAt(text, i) ==
    LET longest == Min({MaxRepeat, lineEnd(text, i) - i + 1})
        copyAt(len, q) == /\ q + len - 1 <= Len(text)
                          /\ SubSeq(text, q, q + len - 1) = SubSeq(text, i, i + len - 1)
        gaps(len) == {q \in (i + len + 1)..(runEnd(text, i + len, Whitespace) + 1) :
                         copyAt(len, q)}
        lens == {len \in MinRepeat..longest :
                    /\ i + len <= Len(text)
                    /\ text[i + len] \in Whitespace
                    /\ gaps(len) # {}}
    IN IF ~wordBoundaryAt(text, i) THEN [len |-> 0, end |-> 0]
       ELSE IF lens = {} THEN [len |-> 0, end |-> 0]
       ELSE [len |-> Max(lens), end |-> Max(gaps(Max(lens))) + Max(lens) - 1]

RECURSIVE removeRepeats(_, _)
\* .replace(/(\b[^\n]{5,200})\s+\1/g, '$1') from position i on
removeRepeats(text, i) ==
    LET starts == {k \in i..Len(text) : repeatAt(text, k).len # 0} IN
    IF starts = {} THEN from(text, i)
    ELSE LET k == Min(starts) IN
         SubSeq(text, i, k + repeatAt(text, k).len - 1)
            \o removeRepeats(text, repeatAt(text, k).end + 1)

BracesAndQuotes == {"{", "}", "[", "]", "\""}

\* .replace(/[{}\[\]"]/g, '')
stripBracesAndQuotes(text) ==
    LET kept(c) == c \notin BracesAndQuotes IN SelectSeq(text, kept)

TrailingSeparators == {"-", ",", ":", ";"} \cup Whitespace

\* .replace(/[-,:;\s]+$/g, '')
stripTrailingSeparators(text) ==
    LET keep == {k \in 1..Len(text) : text[k] \notin TrailingSeparators} IN
    IF keep = {} THEN <<>> ELSE SubSeq(text, 1, Max(keep))

MaxDisplayLength == 300
Ellipsis == <<".", ".", ".">>

\* no step throws on a string, so the catch branch (lines 418-420) is never
\* taken
sanitizeDisplayText(input) ==
    LET unescaped == unescape(input)
        noBlocks == removeEach(unescaped, lazyBlocks(unescaped, 1))
        noEmails == trim(removeEmails(noBlocks))
        noTokens == stripItemsTokens(noEmails)
        noLists == replaceDashLists(noTokens, dashListEnds(noTokens), 1)
        noRepeats == removeRepeats(noLists, 1)
        stripped == stripBracesAndQuotes(noRepeats)
        collapsed == trim(collapseSpace(stripped))
        s == trim(stripTrailingSeparators(collapsed))
    IN IF Len(s) > MaxDisplayLength
       THEN SubSeq(s, 1, MaxDisplayLength) \o Ellipsis
       ELSE s

(***************************************************************************)
(* The items list of a rendered alert (lines 949-1183).  A booking is a    *)
(* record [userEmail, facility, adminResponse]; facility is what           *)
(* allFacilities.find gives for the booking: [found, name].                *)
(***************************************************************************)
\* m[1] of text.match(/(email)/), '' without a match
firstEmail(text) ==
    LET starts == {k \in 1..Len(text) : emailEnds(text)[k] # 0} IN
    IF starts = {} THEN <<>>
    ELSE SubSeq(text, Min(starts), emailEnds(text)[Min(starts)])

\* the email found in the text of the alert, the viewer's own otherwise
actorEmailOf(alert, viewer) ==
    orElse(firstEmail(orElse(alert.message, alert.details)), viewer.email)

\* parsed.titleRequesterEmail || actorEmail || ''
matchEmailOf(alert, parsed, viewer) ==
    orElse(parsed.titleRequesterEmail, actorEmailOf(alert, viewer))

\* needsStatus: one status for the whole alert, from the words of the title
\* and of the message
needsStatusOf(alert) ==
    LET titleStr == toLowerCase(alert.title)
        msgStr == toLowerCase(orElse(alert.message, alert.details))
    IN IF includes(titleStr, <<"p","r","e","p","a","r","e","d">>) \/ includes(msgStr, <<"s","t","a","t","u","s",":"," ","p","r","e","p","a","r","e","d">>)
       THEN "prepared"
       ELSE IF includes(titleStr, <<"n","o","t"," ","a","v","a","i","l","a","b","l","e">>)
               \/ includes(msgStr, <<"s","t","a","t","u","s",":"," ","n","o","t"," ","a","v","a","i","l","a","b","l","e">>)
       THEN "not_available"
       ELSE "pending"

\* the bookings of the requester, in the order of mergedBookings
candidatesOf(bookings, matchEmail) ==
    LET own(b) == /\ matchEmail # <<>>
                  /\ b.userEmail # <<>>
                  /\ toLowerCase(b.userEmail) = toLowerCase(matchEmail)
    IN SelectSeq(bookings, own)

\* chosen, as a list of at most one booking: the only candidate, else the
\* first whose facility is named in the message, else the first candidate
chosenBooking(alert, candidates) ==
    LET msg == orElse(alert.message, alert.details)
        named == {k \in 1..Len(candidates) :
                     /\ candidates[k].facility.found
                     /\ includes(msg, candidates[k].facility.name)}
    IN IF candidates = <<>> THEN <<>>
       ELSE IF Len(candidates) = 1 \/ named = {} THEN <<candidates[1]>>
       ELSE <<candidates[Min(named)]>>

\* jsonMatch[1] of adminResp.match(/(\{[\s\S]*\})/): from the first '{' to
\* the last '}'
greedyBlock(text) ==
    LET open == indexOf(text, <<"{">>, 1)
        close == lastIndexOf(text, <<"}">>, Len(text))
    IN IF open = 0 \/ close < open THEN <<>> ELSE SubSeq(text, open, close)

RECURSIVE toDecimal(_)
\* String(n) of an array index
toDecimal(n) ==
    LET digit == <<"0","1","2","3","4","5","6","7","8","9">>[(n % 10) + 1] IN
    IF n < 10 THEN <<digit>> ELSE toDecimal(n \div 10) \o <<digit>>

\* Object.keys(items).map(...) for the items of a booking: the keys are the
\* labels as they are.  Object.keys(null) throws, which leaves null
itemsOfBooking(items) ==
    CASE items.t = "object" ->
            [k \in 1..Len(items.keys) |->
                [label |-> items.keys[k], status |-> statusOfValue(items.vals[k])]]
      [] items.t = "array" ->
            [k \in 1..Len(items.vals) |->
                [label |-> toDecimal(k - 1), status |-> statusOfValue(items.vals[k])]]
      [] items.t = "string" ->
            [k \in 1..Len(items.s) |->
                [label |-> toDecimal(k - 1), status |-> statusOf(<<LowerChar(items.s[k])>>)]]
      [] OTHER -> <<>>

\* every label of the list with the same status
allWithStatus(list, status) ==
    [k \in 1..Len(list) |-> [label |-> list[k], status |-> status]]

\* inferredItemsWithStatus from the admin's response on the chosen booking;
\* <<>> stands for null
inferredFromResponse(adminResp, equipmentList) ==
    LET needsAt(word) == \E i \in 1..Len(adminResp) :
                            /\ matchesAt(adminResp, i, NeedsWord)
                            /\ matchesAt(adminResp, skipSpace(adminResp, i + Len(NeedsWord)), word)
        fromItems(structured, items) ==
            IF truthy(structured) /\ (truthy(items) \/ items.t = "null")
            THEN itemsOfBooking(items)
            ELSE IF needsAt(<<"P","r","e","p","a","r","e","d">>) THEN allWithStatus(equipmentList, "prepared")
            ELSE IF \E i \in 1..Len(adminResp) : matchesAt(adminResp, i, <<"N","o","t"," ","A","v","a","i","l","a","b","l","e">>)
                 THEN allWithStatus(equipmentList, "not_available")
            ELSE <<>>
        fromStructured(structured) == fromItems(structured, getProp(structured, ItemsKey))
        parsedOr(p) == IF p.ok THEN p.v ELSE JNull
        fromBlock(block) ==
            fromStructured(IF block # <<>> THEN parsedOr(JSONparse(block)) ELSE JNull)
    IN fromBlock(greedyBlock(adminResp))

\* lines 1003-1054: the inference is only tried without parsed statuses and
\* with a list of equipment
inferredItemsWithStatus(alert, parsed, bookings, viewer) ==
    LET fromChosen(chosen) ==
            IF chosen = <<>> THEN <<>>
            ELSE inferredFromResponse(chosen[1].adminResponse, parsed.equipmentList)
    IN IF parsed.itemsWithStatus # <<>> THEN <<>>
       ELSE IF parsed.equipmentList = <<>> THEN <<>>
       ELSE fromChosen(chosenBooking(alert,
                candidatesOf(bookings, matchEmailOf(alert, parsed, viewer))))

\* the status word of (prepared|not_available|not available|true|false|yes|no)\b
\* matched at position i, <<>> when none matches
boundedStatusWordAt(text, i) ==
    LET hits == {w \in 1..Len(StatusWords) :
                    /\ matchesAt(text, i, StatusWords[w])
                    /\ wordBoundaryAt(text, i + Len(StatusWords[w]))}
    IN IF hits = {} THEN <<>>
       ELSE SubSeq(text, i, i + Len(StatusWords[Min(hits)]) - 1)

\* \s*[:\-]\s*(status)\b matched right after a label that ends at j: the
\* position of the status word, 0 without a match
boundedStatusAfter(text, j) ==
    LET sep == skipSpace(text, j + 1)
        st == skipSpace(text, sep + 1)
    IN IF sep > Len(text) THEN 0
       ELSE IF text[sep] \notin {":", "-"} THEN 0
       ELSE IF boundedStatusWordAt(text, st) = <<>> THEN 0
       ELSE st

\* the least end of a label ([A-Za-z0-9 &]+?) that starts at i, 0 when
\* none matches
boundedLabelEnd(text, i) ==
    LET ends == {j \in i..Len(text) :
                    /\ \A k \in i..j : text[k] \in LabelChars
                    /\ boundedStatusAfter(text, j) # 0}
    IN IF ends = {} THEN 0 ELSE Min(ends)

\* the matches of the expression of line 1105
foundEnds(text) ==
    [i \in 1..Len(text) |->
        LET j == boundedLabelEnd(text, i)
            st == boundedStatusAfter(text, j)
        IN IF j = 0 THEN 0 ELSE st + Len(boundedStatusWordAt(text, st)) - 1]

\* the entry pushed for the match that starts at i, mapped as line 1126
\* does: also a blank label is kept
foundAt(text, i) ==
    LET j == boundedLabelEnd(text, i)
        key == trim(SubSeq(text, i, j))
        val == toLowerCase(trim(boundedStatusWordAt(text, boundedStatusAfter(text, j))))
    IN [label |-> orElse(mapToken(key), key), status |-> statusOf(val)]

\* inlineItemsWithStatus; <<>> stands for null
inlineItemsWithStatus(alert) ==
    LET text == orElse(alert.message, alert.details)
        starts == matchStarts(foundEnds(text), 1)
    IN [k \in 1..Len(starts) |-> foundAt(text, starts[k])]

\* displayOthers: othersText without its "label: status" fragments and
\* bullets; <<>> stands for null
displayOthersOf(othersText) ==
    LET ends == [i \in 1..Len(othersText) |->
                   IF wordBoundaryAt(othersText, i) THEN foundEnds(othersText)[i] ELSE 0]
        noFragments == replaceMatches(othersText, ends, 1, <<>>)
        kept(c) == c # "BULLET"
    IN trim(collapseSpace(SelectSeq(noFragments, kept)))

\* mutant: the flat list of equipment is shown whenever there is one
displaySource_ListFirst(parsedItems, inferred, inline, list) ==
    IF list # <<>> THEN "list"
    ELSE IF parsedItems # <<>> THEN "parsed"
    ELSE "none"

\* which list is rendered: useItems (line 1056), then the branches of
\* lines 1099-1181
displaySource(parsedItems, inferred, inline, list) ==
    IF parsedItems # <<>> THEN "parsed"
    ELSE IF inferred # <<>> THEN "booking"
    ELSE IF list = <<>> THEN "none"
    ELSE IF inline # <<>> THEN "inline"
    ELSE "list"

\* what the lead-in sentence is made from (lines 974-997): the parsed
\* statuses, else the list of equipment, else the sanitized text
leadInSource(parsed) ==
    IF parsed.itemsWithStatus # <<>> THEN "statuses"
    ELSE IF parsed.equipmentList # <<>> THEN "equipment"
    ELSE "text"

\* itemsDisplay: the source, the items of the <ul> and the text after
\* "Other details:", with the lists the choice was made from and the source
\* of the lead-in
itemsDisplay(alert, parsed, bookings, viewer) ==
    LET shown(inferred, inline, source) ==
            [ source |-> source,
              leadIn |-> leadInSource(parsed),
              inferred |-> inferred,
              inline |-> inline,
              items |-> CASE source = "parsed" -> parsed.itemsWithStatus
                          [] source = "booking" -> inferred
                          [] source = "inline" -> inline
                          [] source = "list" ->
                                 allWithStatus(parsed.equipmentList, needsStatusOf(alert))
                          [] OTHER -> <<>>,
              others |-> CASE source = "inline" -> displayOthersOf(parsed.othersText)
                           [] source = "none" -> <<>>
                           [] OTHER -> parsed.othersText ]
        withInline(inferred, inline) ==
            shown(inferred, inline,
                  displaySource(parsed.itemsWithStatus, inferred, inline,
                                parsed.equipmentList))
        withInferred(inferred) ==
            withInline(inferred,
                       IF parsed.itemsWithStatus = <<>> /\ inferred = <<>>
                          /\ parsed.equipmentList # <<>>
                       THEN inlineItemsWithStatus(alert) ELSE <<>>)
    IN withInferred(inferredItemsWithStatus(alert, parsed, bookings, viewer))

(***************************************************************************)
(* The rows, bookings and texts the rendering is checked on.               *)
(***************************************************************************)
\* titles: with and without an email suffix, with the legacy wordings
TitlePool ==
    << <<"B","o","o","k","i","n","g"," ","r","e","q","u","e","s","t"," ",
       "s","u","b","m","i","t","t","e","d"," ","EMDASH"," ","a","l","i","c",
       "e","@","x",".","c","o","m">>,
       <<"E","q","u","i","p","m","e","n","t"," ","N","e","e","d","s"," ",
       "S","u","b","m","i","t","t","e","d">>,
       <<"E","q","u","i","p","m","e","n","t"," ","n","e","e","d","s"," ",
       "-"," ","b","o","b","@","y",".","o","r","g">>,
       <<"E","q","u","i","p","m","e","n","t"," ","n","e","e","d","s",":",
       " ","b","o","o","k","i","n","g"," ","r","e","q","u","e","s","t">>,
       <<"S","y","s","t","e","m"," ","n","o","t","i","c","e">>,
       <<"R","o","o","m"," ","u","p","d","a","t","e"," ","ENDASH"," ","c",
       "a","r","o","l","@","z",".","n","e","t"," ","ENDASH"," "," ","a","l",
       "i","c","e","@","x",".","c","o","m"," ">> >>

\* message and details: JSON blocks with an items list or map, one that
\* does not parse, quoted pairs, inline fragments, the legacy formats
MessagePool ==
    << [message |-> <<"{","\"","i","t","e","m","s","\"",":","[","\"","p",
       "r","o","j","e","c","t","o","r","\"",",","\"","H","D","M","I","\"",
       ",","\"","o","t","h","e","r","s",":"," ","e","x","t","r","a"," ","i",
       "n","f","o","\"","]","}"," ","\"","p","r","o","j","e","c","t","o",
       "r","\"",":","\"","y","e","s","\"">>, details |-> <<>>],
       [message |-> <<"R","e","q","u","e","s","t","e","d"," ","e","q","u",
       "i","p","m","e","n","t",":"," ","p","r","o","j","e","c","t","o","r",
       ","," ","h","d","m","i",","," ","o","t","h","e","r","s",":"," ","t",
       "w","o"," ","m","i","c","s"," ","[","b","o","o","k","i","n","g",":",
       "1","2","]">>, details |-> <<>>],
       [message |-> <<"N","e","e","d","s",":"," ","{","\"","p","r","o","j",
       "e","c","t","o","r","\"",":","\"","p","r","e","p","a","r","e","d",
       "\"",",","\"","h","d","m","i","\"",":","f","a","l","s","e","}">>,
        details |-> <<>>],
       [message |-> <<"x"," ","{","\"","i","t","e","m","s","\"",":","{",
       "\"","h","d","m","i","\"",":","\"","n","o","\"","}","}"," ","y">>,
        details |-> <<>>],
       [message |-> <<"x"," ","{","\"","i","t","e","m","s","\"",":","{",
       "\"","h","d","m","i","\"",":","n","o","}","}"," ","y">>,
        details |-> <<>>],
       [message |-> <<"P","r","o","j","e","c","t","o","r",":"," ","p","r",
       "e","p","a","r","e","d","\n","H","D","M","I"," ","-"," ","n","o">>,
        details |-> <<>>],
       [message |-> <<"b","o","b"," ","r","e","q","u","e","s","t","e","d",
       " ","a"," ","b","o","o","k","i","n","g">>, details |-> <<"L","a","b",
       " ","B">>],
       [message |-> <<>>, details |-> <<"s","t","a","t","u","s",":"," ","n",
       "o","t"," ","a","v","a","i","l","a","b","l","e"," ","i","n"," ","L",
       "a","b"," ","A">>],
       [message |-> <<"{","\"","i","t","e","m","s","\"",":","[","\"","o",
       "t","h","e","r","s"," ","-"," ","f","i","r","s","t","\"",",","\"",
       "w","h","i","t","e","b","o","a","r","d","\"",",","\"","O","t","h",
       "e","r","s",":"," ","s","e","c","o","n","d","\"",",","\"","e","x",
       "t","r","a","_","c","h","a","i","r","s",".","\"","]","}">>,
        details |-> <<>>],
       [message |-> <<"{","\"","i","t","e","m","s","\"",":","{","\"","p",
       "r","o","j","e","c","t","o","r","\"",":","\"","Y","E","S","\"",",",
       "\"","h","d","m","i","\"",":","f","a","l","s","e",",","\"","w","h",
       "i","t","e","b","o","a","r","d","\"",":","\"","l","a","t","e","r",
       "\"",",","\"","e","x","t","e","n","s","i","o","n","_","c","o","r",
       "d","\"",":","t","r","u","e","}","}">>, details |-> <<>>],
       [message |-> <<"R","e","q","u","e","s","t","e","d"," ","e","q","u",
       "i","p","m","e","n","t",":"," ","p","r","o","j","e","c","t","o","r",
       ","," ","h","d","m","i","."," ","P","r","o","j","e","c","t","o","r",
       ":"," ","p","r","e","p","a","r","e","d",","," ","H","D","M","I",":",
       " ","n","o">>, details |-> <<>>] >>

\* structuredNote: none, a flat map, an items list, an items map, a list
NotePool ==
    << JUndefined,
       JObj(<<<<"p","r","o","j","e","c","t","o","r">>>>, <<JStr(<<"p","r",
       "e","p","a","r","e","d">>)>>),
       JObj(<<<<"i","t","e","m","s">>,<<"o","t","h","e","r","s">>>>,
        <<JArr(<<JStr(<<"w","h","i","t","e","b","o","a","r","d">>),
       JStr(<<"e","x","t","r","a","_","c","h","a","i","r","s">>)>>),
       JStr(<<"a"," ","f","a","n">>)>>),
       JObj(<<<<"i","t","e","m","s">>>>, <<JObj(<<<<"p","r","o","j","e","c",
       "t","o","r">>,<<"h","d","m","i">>>>, <<JBool(TRUE),JBool(FALSE)>>)>>),
       JArr(<<JStr(<<"p","r","o","j","e","c","t","o","r">>),JStr(<<"o","t",
       "h","e","r","s",":"," ","l","a","t","e">>)>>) >>

\* mergedBookings: none, one of the requester, two of the requester, three
\* of other people
BookingLists ==
    << <<>>,
       <<[userEmail |-> <<"a","l","i","c","e","@","x",".","c","o","m">>,
        facility |-> [found |-> TRUE, name |-> <<"L","a","b"," ","A">>],
        adminResponse |-> <<"N","e","e","d","s",":"," ","P","r","e","p","a",
       "r","e","d">>]>>,
       <<[userEmail |-> <<"a","l","i","c","e","@","x",".","c","o","m">>,
        facility |-> [found |-> FALSE, name |-> <<>>],
        adminResponse |-> <<"o","k"," ","{","\"","i","t","e","m","s","\"",
       ":","{","\"","p","r","o","j","e","c","t","o","r","\"",":","\"","y",
       "e","s","\"",",","\"","h","d","m","i","\"",":","\"","n","o","\"","}",
       "}">>], [userEmail |-> <<"A","L","I","C","E","@","X",".","C","O",
       "M">>, facility |-> [found |-> TRUE, name |-> <<"L","a","b"," ",
       "A">>], adminResponse |-> <<"N","o","t"," ","A","v","a","i","l","a",
       "b","l","e">>]>>,
       <<[userEmail |-> <<"m","e","@","x",".","c","o","m">>,
        facility |-> [found |-> TRUE, name |-> <<"L","a","b"," ","B">>],
        adminResponse |-> <<"{","\"","i","t","e","m","s","\"",":","n","u",
       "l","l","}">>], [userEmail |-> <<"a","d","m","i","n","@","x",".","c",
       "o","m">>, facility |-> [found |-> TRUE, name |-> <<"L","a","b"," ",
       "B">>], adminResponse |-> <<"N","e","e","d","s",":"," "," ","p","r",
       "e","p","a","r","e","d"," ","{","x">>], [userEmail |-> <<"b","o","b",
       "@","y",".","o","r","g">>, facility |-> [found |-> TRUE,
        name |-> <<"L","a","b"," ","B">>], adminResponse |-> <<"{","\"","i",
       "t","e","m","s","\"",":","[","\"","y","e","s","\"",",","\"","n","o",
       "\"","]","}">>]>> >>

\* the texts extractJsonAroundKey is applied to: what stands before the
\* key, around it and after it
TextPrefixes ==
    << <<"p","r","e","f","i","x"," ">>,
       <<>>,
       <<"{","\"","x","\"",":","1","}"," ">>,
       <<"a"," ","{"," ","b"," ">> >>

\* the key inside a nested object, outside any object, before an object
TextBodies ==
    << <<"{","\"","i","t","e","m","s","\"",":","{","\"","a","\"",":","{",
       "\"","b","\"",":","1","}","}","}">>,
       <<"\"","i","t","e","m","s","\"",":","[","\"","p","\"","]">>,
       <<"{","\"","i","t","e","m","s","\"",":","[","\"","p","\"",",","\"",
       "q","\"","]","}">>,
       <<"{","\"","n","\"",":","{","\"","i","t","e","m","s","\"",":","{",
       "\"","a","\"",":","\"","y","e","s","\"","}","}","}">>,
       <<"i","t","e","m","s">>,
       <<"\"","i","t","e","m","s","\""," ","{","\"","a","\"",":","\"","n",
       "o","\"">> >>

\* nothing, words, a stray brace, a further object
TextSuffixes ==
    << <<" ","s","u","f","f","i","x">>,
       <<>>,
       <<" ","}">>,
       <<" ","{","\"","k","\"",":","\"","v","\"","}">> >>

\* the texts sanitizeDisplayText is applied to: a lead, a core, a tail
DisplayLeads ==
    << <<>>,
       <<"s","e","e"," ">>,
       <<"B","o","o","k","i","n","g"," ","f","o","r"," ">> >>

\* addresses whole and split by a quote, a bracket or braces, repeated
\* words, JSON flat and nested, dash lists, items tokens, escapes, separators
DisplayCores ==
    << <<"a","l","i","c","e","@","x",".","c","o","m">>,
       <<"a","l","i","c","e","\"","@","x",".","c","o","m">>,
       <<"b","o","b","@","[","y",".","o","r","g","]">>,
       <<"h","e","l","l","o"," ","h","e","l","l","o"," ","h","e","l","l",
       "o"," ","h","e","l","l","o">>,
       <<"r","o","o","m"," ","o","n","e"," ","r","o","o","m"," ","o","n",
       "e">>,
       <<"x"," ","{","\"","i","t","e","m","s","\"",":","{","\"","h","d","m",
       "i","\"",":","\"","n","o","\"","}","}"," ","y">>,
       <<"l","i","s","t"," ","-"," ","a"," ","-"," ","b"," ","-"," ","c">>,
       <<"\"","i","t","e","m","s","\"",":"," ","p","r","o","j","e","c","t",
       "o","r",","," ","h","d","m","i">>,
       <<"L","a","b"," ","A","\\","n","L","a","b"," ","B">>,
       <<"a","@","b",".","c","{","}","o","m">>,
       <<"w","a","i","t"," ","-"," ",","," ",":"," ",";">>,
       <<"t","h","e"," ","e","n","d">>,
       <<"x"," ","{","\"","a","\"",":","{","\"","b","\"",":","1","}",",",
       "\"","c","\"",":","2","}"," ","y">> >>

\* nothing, a word, separators, a JSON block
DisplayTails ==
    << <<>>,
       <<" ","n","o","w">>,
       <<" ","-"," ">>,
       <<" ","{","\"","k","\"",":","1","}">> >>

\* the tokens mapToken is applied to: what stands before the word, the
\* word and what stands after it
TokenLeads ==
    << <<>>,
       <<" ">>,
       <<"_">> >>

\* the known tokens in any casing, with a space or an underscore, tokens
\* with "others", unknown tokens
TokenWords ==
    << <<"w","h","i","t","e","b","o","a","r","d">>,
       <<"P","r","o","j","e","c","t","o","r">>,
       <<"E","X","T","E","N","S","I","O","N"," ","C","O","R","D">>,
       <<"e","x","t","e","n","s","i","o","n","_","c","o","r","d">>,
       <<"H","d","m","i">>,
       <<"e","x","t","r","a"," ","c","h","a","i","r","s">>,
       <<"E","x","t","r","a","_","C","h","a","i","r","s">>,
       <<"o","t","h","e","r","s">>,
       <<"a","n","d"," ","O","t","h","e","r","s">>,
       <<"O","t","h","e","r","s",":"," ","t","w","o"," ","m","i","c","s">>,
       <<"b","r","o","t","h","e","r","s"," ","t","a","b","l","e">>,
       <<"L","a","b"," ","K","e","y">>,
       <<"l","a","b","_","k","e","y">>,
       <<"M","i","c","."," ","s","t","a","n","d">>,
       <<>>,
       <<"h","d","m","i"," ","c","a","b","l","e">> >>

\* nothing, punctuation, white space, an underscore
TokenTails ==
    << <<>>,
       <<".">>,
       <<".",";">>,
       <<" ">>,
       <<"."," ",",">>,
       <<"_">> >>

(***************************************************************************)
(* The rendering of one row.  parseEquipmentAlert, the items list and      *)
(* sanitizeDisplayText are functions of the row (and of the bookings and   *)
(* the viewer); the specifications below draw the row from the pools and   *)
(* apply them step by step, the bell being left as it was mounted.         *)
(***************************************************************************)
RenderRows == {4}

bellVars == <<user, systemAlerts, queryState, fetching, mutations,
              pendingMarkIds, hiddenAlertIds, localStorage, lastHandler,
              dismissedBy>>

ItemsKeyQuoted == <<"\"","i","t","e","m","s","\"">>

\* the texts of raw that extractJsonAroundKey is applied to
TextPool ==
    {TextPrefixes[p] \o TextBodies[b] \o TextSuffixes[s] :
        p \in 1..Len(TextPrefixes), b \in 1..Len(TextBodies),
        s \in 1..Len(TextSuffixes)}

InitExtract ==
    \E t \in TextPool :
        MountedWith([a \in RenderRows |-> FALSE],
                    [stage |-> "raw", text |-> t, key |-> ItemsKeyQuoted])

\* line 81: itemsBlock = extractJsonAroundKey(raw, '"items"')
ExtractItemsBlock ==
    /\ render.stage = "raw"
    /\ render' = [stage |-> "extracted", text |-> render.text, key |-> render.key,
                  block |-> extractJsonAroundKey(render.text, render.key)]
    /\ UNCHANGED bellVars

NextExtract == ExtractItemsBlock

SpecExtract == InitExtract /\ [][NextExtract]_vars

\* the rows: every title with every message, the notes on two of the titles
NotedTitles == {1, 5}

AlertInputs ==
    LET chosen == {x \in (1..Len(TitlePool)) \X (1..Len(MessagePool))
                            \X (1..Len(NotePool)) :
                      x[3] = 1 \/ x[1] \in NotedTitles}
    IN {[title |-> TitlePool[x[1]], message |-> MessagePool[x[2]].message,
         details |-> MessagePool[x[2]].details,
         structuredNote |-> NotePool[x[3]]] : x \in chosen}

InitParse ==
    \E a \in AlertInputs :
        MountedWith([r \in RenderRows |-> FALSE], [stage |-> "alert", alert |-> a])

\* line 950: const parsed = parseEquipmentAlert(alert)
ParseAlert ==
    /\ render.stage = "alert"
    /\ render' = [stage |-> "parsed", alert |-> render.alert,
                  parsed |-> parseEquipmentAlert(render.alert)]
    /\ UNCHANGED bellVars

\* lines 999-1183: the items list, for the bookings the queries returned
RenderItems(bookings) ==
    /\ render.stage = "parsed"
    /\ render' = [stage |-> "displayed", alert |-> render.alert,
                  parsed |-> render.parsed, bookings |-> bookings,
                  display |-> itemsDisplay(render.alert, render.parsed, bookings, user)]
    /\ UNCHANGED bellVars

NextParse ==
    \/ ParseAlert
    \/ \E k \in 1..Len(BookingLists) : RenderItems(BookingLists[k])

SpecParse == InitParse /\ [][NextParse]_vars

\* s.repeat(n)
repeated(s, n) == [i \in 1..(n * Len(s)) |-> s[((i - 1) % Len(s)) + 1]]

\* texts longer than MaxDisplayLength
LongTexts ==
    { repeated(<<"r","o","o","m"," ">>, 59) \o <<"m","@","x",".","c","o","m"," ">> \o repeated(<<"t","a","i","l">>, 3),
      repeated(<<"a","b">>, 150) \o <<" ","c","d">> }

\* the texts sanitizeDisplayText is applied to
DisplayTexts ==
    {DisplayLeads[l] \o DisplayCores[c] \o DisplayTails[t] :
        l \in 1..Len(DisplayLeads), c \in 1..Len(DisplayCores),
        t \in 1..Len(DisplayTails)} \cup LongTexts

InitSanitize ==
    \E t \in DisplayTexts :
        MountedWith([a \in RenderRows |-> FALSE], [stage |-> "text", text |-> t])

\* sanitizeDisplayText(text)
Sanitize ==
    /\ render.stage = "text"
    /\ render' = [stage |-> "sanitized", text |-> render.text,
                  out |-> sanitizeDisplayText(render.text)]
    /\ UNCHANGED bellVars

\* sanitizeDisplayText applied to its own output
SanitizeAgain ==
    /\ render.stage = "sanitized"
    /\ render' = [stage |-> "sanitizedTwice", text |-> render.text,
                  out |-> render.out, again |-> sanitizeDisplayText(render.out)]
    /\ UNCHANGED bellVars

NextSanitize == Sanitize \/ SanitizeAgain

SpecSanitize == InitSanitize /\ [][NextSanitize]_vars

\* the tokens mapToken is applied to
TokenPool ==
    {TokenLeads[l] \o TokenWords[w] \o TokenTails[t] :
        l \in 1..Len(TokenLeads), w \in 1..Len(TokenWords),
        t \in 1..Len(TokenTails)}

InitTokens ==
    \E t \in TokenPool :
        MountedWith([a \in RenderRows |-> FALSE], [stage |-> "token", token |-> t])

\* lines 137-147: mapToken(rawToken); null tells the result null from ''
MapToken ==
    /\ render.stage = "token"
    /\ render' = [stage |-> "mapped", token |-> render.token,
                  null |-> mapsToNull(render.token),
                  label |-> mapToken(render.token)]
    /\ UNCHANGED bellVars

NextTokens == MapToken

SpecTokens == InitTokens /\ [][NextTokens]_vars

(***************************************************************************)
(* Properties of the rendering.                                            *)
(***************************************************************************)
\* the row was parsed
hasParsed == render.stage \in {"parsed", "displayed"}

\* the text was sanitized
hasSanitized == render.stage \in {"sanitized", "sanitizedTwice"}

\* C12, as stated: when the alert carries a structuredNote, the needs
\* object of the result is that object (in the {items: ...} form the
\* parser gives a flat map), whatever JSON the message holds.
C12_AsStated ==
    (hasParsed /\ truthy(render.alert.structuredNote))
        => render.parsed.needsObj = needsWrapped(render.alert.structuredNote)

\* C13, as stated: for a key inside a balanced object the block that is
\* returned contains the key, and for the text
\* 'prefix {"items":{"a":{"b":1}}} suffix' it is {"items":{"a":{"b":1}}}.
C13_AsStated ==
    render.stage = "extracted" =>
        LET idx == indexOf(render.text, render.key, 1)
            around == {o \in 1..idx :
                          /\ render.text[o] = "{"
                          /\ closingBrace(render.text, o) >= idx + Len(render.key)}
        IN /\ (idx # 0 /\ around # {}) => includes(render.block, render.key)
           /\ render.text = <<"p","r","e","f","i","x"," ","{","\"","i","t","e","m","s","\"",":","{","\"","a","\"",":","{","\"","b","\"",":","1","}","}","}"," ","s","u","f","f","i","x">>
                 => render.block = <<"{","\"","i","t","e","m","s","\"",":","{","\"","a","\"",":","{","\"","b","\"",":","1","}","}","}">>

\* C14, as stated: an items map gives one entry per key, in key order; a
\* string is classified by its lower-case form, the boolean true is
\* prepared, the boolean false is not_available, anything else is pending.
C14_AsStated ==
    hasParsed =>
        LET items == getProp(render.parsed.needsObj, ItemsKey)
            list == render.parsed.itemsWithStatus
        IN (items.t = "object" /\ items.keys # <<>>) =>
              /\ Len(list) = Len(items.keys)
              /\ \A k \in 1..Len(items.keys) :
                    /\ list[k].label = labelOf(items.keys[k])
                    /\ list[k].status =
                          CASE items.vals[k].t = "string" ->
                                  statusOf(toLowerCase(items.vals[k].s))
                            [] items.vals[k].t = "boolean" ->
                                  IF items.vals[k].b THEN "prepared"
                                  ELSE "not_available"
                            [] OTHER -> "pending"

\* C15, as stated: the result of the parser never has both itemsWithStatus
\* and equipmentList populated.
C15_AsStated ==
    hasParsed =>
        (render.parsed.itemsWithStatus # <<>> => render.parsed.equipmentList = <<>>)

\* C16: one source drives the items list of a rendered alert.  Parsed
\* statuses, when there are any, are the list that is shown and what the
\* lead-in is made from; statuses inferred from a booking come next, then
\* inline fragments, then the flat list of equipment with one status for
\* all; without any of them no list is shown.
C16_OneSourceByPrecedence ==
    render.stage = "displayed" =>
        LET p == render.parsed
            d == render.display
        IN /\ d.source \in {"parsed", "booking", "inline", "list", "none"}
           /\ p.itemsWithStatus # <<>> =>
                 /\ d.source = "parsed"
                 /\ d.leadIn = "statuses"
                 /\ d.items = p.itemsWithStatus
                 /\ d.inferred = <<>>
                 /\ d.inline = <<>>
           /\ d.source = "booking" =>
                 /\ p.itemsWithStatus = <<>>
                 /\ d.inferred # <<>>
                 /\ d.items = d.inferred
           /\ d.source = "inline" =>
                 /\ p.itemsWithStatus = <<>> /\ d.inferred = <<>>
                 /\ d.inline # <<>>
                 /\ d.items = d.inline
           /\ d.source = "list" =>
                 /\ p.itemsWithStatus = <<>> /\ d.inferred = <<>> /\ d.inline = <<>>
                 /\ p.equipmentList # <<>>
                 /\ [k \in 1..Len(d.items) |-> d.items[k].label] = p.equipmentList
           /\ d.source = "none" =>
                 /\ p.itemsWithStatus = <<>> /\ p.equipmentList = <<>>
                 /\ d.items = <<>>

\* reached: parsed statuses are shown although the row also has a list of
\* equipment and the requester has bookings
C16_Witness ==
    /\ render.stage = "displayed"
    /\ render.parsed.itemsWithStatus # <<>>
    /\ render.parsed.equipmentList # <<>>
    /\ candidatesOf(render.bookings,
                    matchEmailOf(render.alert, render.parsed, user)) # <<>>
    /\ render.display.source = "parsed"

\* C17: for a needs object with an items array, equipmentList is the labels
\* of the entries without "others", in input order, closed by one
\* 'and others' when there is an others text; no entry with "others" is a
\* label; othersText is the text after the marker of the first such entry
\* that has any.  For ["projector", "HDMI", "others: extra info"] the list
\* is Projector, HDMI Cable, and others, and othersText is "extra info".
C17_ItemsArrayWithOthers ==
    hasParsed =>
        LET items == getProp(render.parsed.needsObj, ItemsKey)
            toks == itemTokens(items)
            list == render.parsed.equipmentList
            others == render.parsed.othersText
            isOthers(k) == includes(toLowerCase(toks[k]), OthersWord)
            withText == {k \in 1..Len(toks) :
                            isOthers(k) /\ othersTrailing(toks[k]) # <<>>}
            plain == {k \in 1..Len(toks) :
                         ~isOthers(k) /\ mapToken(toks[k]) # NoLabel}
            nth(j) == CHOOSE k \in plain : Cardinality({q \in plain : q < k}) = j - 1
            closed == IF others # <<>> THEN 1 ELSE 0
        IN items.t = "array" =>
              /\ Len(list) = Cardinality(plain) + closed
              /\ \A j \in 1..Cardinality(plain) : list[j] = mapToken(toks[nth(j)])
              /\ closed = 1 => list[Len(list)] = AndOthers
              /\ \A j \in 1..Cardinality(plain) :
                    ~includes(toLowerCase(list[j]), OthersWord)
              /\ withText # {} => others = othersTrailing(toks[Min(withText)])
              /\ toks = <<<<"p","r","o","j","e","c","t","o","r">>, <<"H","D","M","I">>, <<"o","t","h","e","r","s",":"," ","e","x","t","r","a"," ","i","n","f","o">>>> =>
                    /\ list = <<<<"P","r","o","j","e","c","t","o","r">>, <<"H","D","M","I"," ","C","a","b","l","e">>, <<"a","n","d"," ","o","t","h","e","r","s">>>>
                    /\ others = <<"e","x","t","r","a"," ","i","n","f","o">>

\* reached: the items array of the example was parsed
C17_Witness ==
    /\ hasParsed
    /\ getProp(render.parsed.needsObj, ItemsKey).t = "array"
    /\ itemTokens(getProp(render.parsed.needsObj, ItemsKey))
          = <<<<"p","r","o","j","e","c","t","o","r">>, <<"H","D","M","I">>, <<"o","t","h","e","r","s",":"," ","e","x","t","r","a"," ","i","n","f","o">>>>
    /\ render.parsed.othersText = <<"e","x","t","r","a"," ","i","n","f","o">>

C19_AsStated == render.stage = "sanitizedTwice" => render.again = render.out

\* C20, as stated: no email address is left in the output of
\* sanitizeDisplayText.
C20_AsStated ==
    hasSanitized => \A i \in 1..Len(render.out) : emailEnds(render.out)[i] = 0

(***************************************************************************)
(* Properties of the sanitizer, the token mapper and the block extractor.  *)
(***************************************************************************)
RECURSIVE withoutBalancedBlocks(_, _)
\* the text from position i on without its balanced {...} blocks, nested
\* ones included: each block runs from a '{' to the '}' that closes it
withoutBalancedBlocks(text, i) ==
    LET opens == {o \in i..Len(text) : text[o] = "{" /\ closingBrace(text, o) # 0}
        rest(o) == SubSeq(text, i, o - 1)
                      \o withoutBalancedBlocks(text, closingBrace(text, o) + 1)
    IN IF opens = {} THEN from(text, i) ELSE rest(Min(opens))

\* C21, as stated: nothing of a balanced JSON block of the input is left in
\* the output of sanitizeDisplayText, so the output is what the text
\* without its balanced blocks gives.
C21_AsStated ==
    hasSanitized =>
        render.out = sanitizeDisplayText(withoutBalancedBlocks(render.text, 1))

\* the lookup table of the token mapper: normalised token and label
KnownTokens ==
    << <<<<"w","h","i","t","e","b","o","a","r","d">>, <<"W","h","i","t","e","b","o","a","r","d"," ","&"," ","M","a","r","k","e","r","s">>>>,
       <<<<"p","r","o","j","e","c","t","o","r">>, <<"P","r","o","j","e","c","t","o","r">>>>,
       <<<<"e","x","t","e","n","s","i","o","n"," ","c","o","r","d">>, <<"E","x","t","e","n","s","i","o","n"," ","C","o","r","d">>>>,
       <<<<"h","d","m","i">>, <<"H","D","M","I"," ","C","a","b","l","e">>>>,
       <<<<"e","x","t","r","a"," ","c","h","a","i","r","s">>, <<"E","x","t","r","a"," ","C","h","a","i","r","s">>>> >>

\* the token was mapped
hasMapped == render.stage = "mapped"

\* C22: mapToken always gives null or a string.  It gives null exactly for
\* the tokens that contain "others" in any casing.  For the others, after
\* underscores became spaces and the white space around the token was cut,
\* one of the five known tokens in any casing gives its canonical label, and
\* any other token is returned in its own casing, without the '.', ',' and
\* ';' it ends with.
C22_TokenMapper ==
    hasMapped =>
        LET token == render.token
            norm == trim(underscoresToSpaces(token))
            low == toLowerCase(norm)
            known == {k \in 1..Len(KnownTokens) : KnownTokens[k][1] = low}
            kept == {k \in 1..Len(norm) : norm[k] \notin {".", ",", ";"}}
            bare == IF kept = {} THEN <<>> ELSE SubSeq(norm, 1, Max(kept))
        IN /\ render.null \in BOOLEAN
           /\ render.label \in Seq({norm[k] : k \in 1..Len(norm)}
                                     \cup LabelChars \cup {"&"})
           /\ render.null <=> \E i \in 1..Len(token) :
                                 matchesAt(token, i, OthersWord)
           /\ render.null => render.label = NoLabel
           /\ (~render.null /\ known # {})
                 => render.label = KnownTokens[Min(known)][2]
           /\ (~render.null /\ known = {})
                 => /\ render.label = trim(bare)
                    /\ includes(norm, render.label)
           /\ token = <<"H","d","m","i">> => render.label = <<"H","D","M","I"," ","C","a","b","l","e">>
           /\ token = <<" ","e","x","t","e","n","s","i","o","n","_","c","o","r","d","_">> => render.label = <<"E","x","t","e","n","s","i","o","n"," ","C","o","r","d">>
           /\ token = <<"L","a","b"," ","K","e","y",".",";">> => render.label = <<"L","a","b"," ","K","e","y">>

\* reached: an unknown token with capitals and trailing punctuation was
\* mapped
C22_Witness ==
    /\ hasMapped
    /\ render.token = <<"L","a","b"," ","K","e","y",".",";">>
    /\ ~render.null
    /\ render.label = <<"L","a","b"," ","K","e","y">>

\* the braces of a block are balanced: it opens with '{', closes with '}',
\* and the depth is 0 after the last character and never before
balancedBlock(block) ==
    LET depth(i) == Cardinality({k \in 1..i : block[k] = "{"})
                       - Cardinality({k \in 1..i : block[k] = "}"})
    IN /\ Len(block) >= 2
       /\ block[1] = "{"
       /\ block[Len(block)] = "}"
       /\ depth(Len(block)) = 0
       /\ \A i \in 1..(Len(block) - 1) : depth(i) > 0

\* C23: extractJsonAroundKey gives null when the key is not in the text,
\* when the text has no '{', and when the braces from the chosen '{' do not
\* come back to depth 0.  Otherwise it gives the text from the first '{' at
\* or after the key, or without one the last '{' before the key, up to the
\* first '}' that closes it, and the braces of this block are balanced.
C23_ExtractBalanced ==
    render.stage = "extracted" =>
        LET text == render.text
            key == render.key
            block == render.block
            keyAt == {i \in 1..(Len(text) - Len(key) + 1) :
                         SubSeq(text, i, i + Len(key) - 1) = key}
            braces == {o \in 1..Len(text) : text[o] = "{"}
            found(idx) ==
                LET after == {o \in braces : o >= idx}
                    open == IF after # {} THEN Min(after) ELSE Max(braces)
                    depth(i) == Cardinality({k \in open..i : text[k] = "{"})
                                   - Cardinality({k \in open..i : text[k] = "}"})
                    closes == {i \in open..Len(text) : text[i] = "}" /\ depth(i) = 0}
                IN IF closes = {} THEN block = NoBlock
                   ELSE /\ block = SubSeq(text, open, Min(closes))
                        /\ balancedBlock(block)
        IN IF keyAt = {} \/ braces = {} THEN block = NoBlock
           ELSE found(Min(keyAt))

\* reached: the key stands before a nested object and the block ends with
\* the brace that closes it
C23_Witness ==
    /\ render.stage = "extracted"
    /\ render.text = <<"p","r","e","f","i","x"," ","{","\"","i","t","e","m","s","\"",":","{","\"","a","\"",":","{","\"","b","\"",":","1","}","}","}"," ","s","u","f","f","i","x">>
    /\ render.block = <<"{","\"","a","\"",":","{","\"","b","\"",":","1","}","}">>

(***************************************************************************)
(* Properties of the two fetches of a non-admin viewer, under SpecFeeds.   *)
(***************************************************************************)
\* the list of the viewer computed from a response of /api/notifications
\* and a response of /api/admin/alerts
listFrom(userResponse, ownerResponse) ==
    LET mine(a) == Row(a.id).userId = user.id
        own == SelectSeq(userResponse, mine)
        extra(a) == a.id \in RelevantIds[user] /\ a.id \notin IdsOf(own)
    IN sortNewestFirst(dedupeGroups(own \o SelectSeq(ownerResponse, extra)))

unreadIn(list, hidden) ==
    Cardinality({i \in 1..Len(list) : ~list[i].isRead /\ list[i].id \notin hidden})

\* one of the two fetches of a non-admin viewer completes in this step
Completes(q) ==
    /\ ~isAdmin
    /\ fetching[q].active
    /\ ~fetching'[q].active

OtherFetch(q) == IF q = "user" THEN "owner" ELSE "user"

\* C24: for a non-admin viewer the completion of one of the two fetches
\* leaves what the other one delivered as it is, and the list and unreadCount
\* afterwards are the ones computed from the two responses received so far
\* (nothing for a fetch that has not completed), whichever completed first;
\* the list is in descending order of createdAt and holds only records of
\* the responses.
C24_FetchOrderIrrelevant ==
    [][\A q \in {"user", "owner"} :
          Completes(q) =>
              LET other == OtherFetch(q)
                  arrived == IF queryState'[q].hasData THEN queryState'[q].data ELSE <<>>
                  before == IF queryState[other].hasData THEN queryState[other].data ELSE <<>>
                  expected == IF q = "user" THEN listFrom(arrived, before)
                              ELSE listFrom(before, arrived)
              IN /\ queryState'[other] = queryState[other]
                 /\ arrived \in {fetching[q].data, dataOrEmpty(q), <<>>}
                 /\ alertsData' = expected
                 /\ unreadCount' = unreadIn(expected, hiddenAlertIds)
                 /\ NewestFirst(expected)
                 /\ IdsOf(expected) \subseteq IdsOf(arrived) \cup IdsOf(before)]_vars

\* both fetches of a non-admin viewer have completed: the list holds a
\* record of the viewer and a cross-scope record naming them, both unread
C24_Witness ==
    /\ ~isAdmin
    /\ queryState["user"].hasData /\ ~fetching["user"].active
    /\ queryState["owner"].hasData /\ ~fetching["owner"].active
    /\ \E i, j \in 1..Len(alertsData) :
          /\ Row(alertsData[i].id).userId = user.id
          /\ Row(alertsData[j].id).userId = NoUserId
    /\ unreadCount >= 2

(***************************************************************************)
(* Properties of concurrent mark-read requests, under Spec.                *)
(***************************************************************************)
\* the actor's feed cache holds the alert as read
ReadInCache(cache, alertId) ==
    /\ cache[actorQuery].hasData
    /\ \E i \in 1..Len(cache[actorQuery].data) :
          cache[actorQuery].data[i] = Entry(alertId, TRUE)

\* C25 as stated: with two mark-read requests for different ids outstanding,
\* the failure of one rolls back only its own alert: an alert of another
\* request, still outstanding or already served, that the actor's feed cache
\* holds as read is still held as read after the failure.
C25_AsStated ==
    [][lastHandler'.kind = "error" =>
          \A other \in DOMAIN systemAlerts :
              (/\ other # lastHandler'.alert
               /\ other \in OutstandingIds \/ systemAlerts[other]
               /\ ReadInCache(queryState, other))
                  => ReadInCache(queryState', other)]_vars

\* the actor's feed cache holds the alert as unread
UnreadInCache(cache, alertId) ==
    /\ cache[actorQuery].hasData
    /\ \E i \in 1..Len(cache[actorQuery].data) :
          cache[actorQuery].data[i] = Entry(alertId, FALSE)

\* C26 as stated: while a mark-read request for an alert id is outstanding,
\* the actor's feed cache holds that alert with isRead = true in every state,
\* also when a fetch of the feed that was started before the click
\* completes in the meantime.
C26_AsStated ==
    \A alertId \in OutstandingIds : ~UnreadInCache(queryState, alertId)

(***************************************************************************)
(* Progress.  A fetch in flight ends (the response arrives, its body does  *)
(* not parse, or apiRequest throws) and a POST in flight is answered.      *)
(* Opening the bell, focusing the window and clicking are up to the        *)
(* viewer: nothing makes them happen.                                      *)
(***************************************************************************)
FetchSettles(q) == FetchOk(q) \/ FetchBadJson(q) \/ FetchThrow(q)

RequestSettles(k) == MutationSucceed(k) \/ MutationFail(k)

Fairness ==
    /\ \A q \in Queries : WF_vars(FetchSettles(q))
    /\ \A k \in 1..MaxPending : WF_vars(RequestSettles(k))

SpecFair == Init /\ [][Next]_vars /\ Fairness

\* the request for the alert was served and the actor's feed, fetched
\* again, holds the alert as read; nothing is in flight
Settled(alertId) ==
    /\ systemAlerts[alertId]
    /\ mutations = <<>>
    /\ \A q \in Queries : ~fetching[q].active
    /\ ReadInCache(queryState, alertId)

\* the viewer's list holds the alert as unread and the viewer has not
\* dismissed it: the bell renders it unread and unreadCount counts it
ShownUnread(alertId) ==
    /\ alertId \notin hiddenAlertIds
    /\ \E i \in 1..Len(alertsData) : alertsData[i] = Entry(alertId, FALSE)

\* C27 as stated: after a mark-read request for a visible alert has
\* succeeded and the refetch it triggers has completed, the alert is
\* eventually shown as read in the viewer's list and not counted in
\* unreadCount, for every alert the viewer can see, cross-scope records
\* shown to a non-admin viewer included.
C27_AsStated ==
    \A alertId \in SessionRows :
        Settled(alertId) ~> ~ShownUnread(alertId)

\* C28: in every state an alert id is in the pending set exactly when a
\* mark-read request for it is outstanding: the set has one id per
\* outstanding request and is empty when no request is outstanding, however
\* the requests for several ids are interleaved.
C28_PendingIsOutstanding ==
    /\ \A alertId \in DOMAIN systemAlerts :
          alertId \in pendingMarkIds
              <=> \E k \in 1..Len(mutations) : mutations[k].alertId = alertId
    /\ Cardinality(pendingMarkIds) = Len(mutations)
    /\ pendingMarkIds \subseteq DOMAIN systemAlerts
    /\ mutations = <<>> => pendingMarkIds = {}

\* of two requests outstanding together one has just failed: the id of the
\* other one alone is pending
C28_Witness ==
    /\ lastHandler.kind = "error"
    /\ Len(mutations) = 1
    /\ mutations[1].alertId # lastHandler.alert
    /\ pendingMarkIds = {mutations[1].alertId}

(***************************************************************************)
(* Viewers with overlapping emails.  SpecOverlap mounts the component for  *)
(* one@else.com or for someone@else.com over the records of the pool that  *)
(* name someone@else.com or belong to them, and lets the fetches settle    *)
(* and the viewer dismiss rows as in SpecFeeds.                            *)
(***************************************************************************)
OverlapRows == {6, 7, 8}

InitOverlap ==
    /\ user \in OverlapUsers
    /\ \E rows \in SUBSET OverlapRows :
          /\ rows # {}
          /\ systemAlerts \in [rows -> BOOLEAN]
    /\ queryState = [q \in Queries |-> NoData]
    /\ \E fu \in notificationsFeed, fo \in adminAlertsFeed :
          fetching = [q \in Queries |->
                         CASE q = "admin" -> NoFetch
                           [] q = "user"  -> InFlight(fu)
                           [] q = "owner" -> InFlight(fo)]
    /\ mutations = <<>>
    /\ pendingMarkIds = {}
    /\ hiddenAlertIds = {}
    /\ localStorage = [u \in {w.id : w \in OverlapUsers} |-> [present |-> FALSE, ids |-> {}]]
    /\ lastHandler = Handler("mount", 0, "")
    /\ dismissedBy = [u \in {w.id : w \in OverlapUsers} |-> {}]
    /\ render = NoRender

SpecOverlap == InitOverlap /\ [][NextFeeds]_vars

\* the email of the requester a global record of the pool names, read off
\* the pool by hand
AddressedTo(id) ==
    CASE id \in {3, 4} -> MeEmail
      [] id \in {6, 7} -> SomeoneEmail
      [] OTHER -> NoEmail

\* C29 as stated: a non-admin viewer's list holds a cross-scope record
\* (userId = null) only if the requester email the record names equals the
\* viewer's email: viewer one@else.com does not get a record that names
\* someone@else.com.
C29_AsStated ==
    ~isAdmin =>
        \A i \in 1..Len(alertsData) :
            Row(alertsData[i].id).userId = NoUserId =>
                AddressedTo(alertsData[i].id) = toLowerCase(user.email)

(***************************************************************************)
(* Dismissal and the unread count, under Spec.                             *)
(***************************************************************************)
\* the state after a dismissal: the dismissed row was rendered, so its id
\* was not hidden before, and dismissing leaves the caches as they are; the
\* count before is the one over the hidden set without the id
AfterHide(id, list) ==
    LET before == unreadIn(list, hiddenAlertIds \ {id})
        unread == \E i \in 1..Len(list) : list[i] = Entry(id, FALSE)
    IN /\ \E i \in 1..Len(list) : list[i].id = id
       /\ id \in hiddenAlertIds
       /\ unread => unreadCount = before - 1
       /\ ~unread => unreadCount = before
       /\ \A hidden \in hiddenAlertIds :
             unreadIn(list, hiddenAlertIds \cup {hidden}) = unreadCount

\* C30: dismissing a row whose alert the list holds unread lowers
\* unreadCount by exactly 1 and dismissing a row whose alert is read leaves
\* it as it is; adding an id that is already hidden to the hidden set changes
\* neither the set nor unreadCount; no rendered row has a hidden id; no step
\* removes an id from the hidden set or from the set stored for the viewer.
C30_HideLowersCountByOne ==
    /\ [](/\ \A id \in hiddenAlertIds : id \notin IdsOf(bellList)
          /\ lastHandler.kind = "hide" => AfterHide(lastHandler.alert, alertsData))
    /\ [][/\ hiddenAlertIds \subseteq hiddenAlertIds'
          /\ lastHandler'.kind = "hide" =>
                /\ lastHandler'.alert \notin hiddenAlertIds
                /\ hiddenAlertIds' = hiddenAlertIds \cup {lastHandler'.alert}
                /\ queryState' = queryState
          /\ \A u \in DOMAIN localStorage :
                localStorage[u].ids \subseteq localStorage'[u].ids]_vars

\* the second of two unread alerts has just been dismissed: the count went
\* from 2 to 1 to 0 and no row is rendered
C30_Witness ==
    /\ lastHandler.kind = "hide"
    /\ Len(alertsData) = 2
    /\ \A i \in 1..Len(alertsData) : ~alertsData[i].isRead
    /\ hiddenAlertIds = IdsOf(alertsData)
    /\ unreadCount = 0
    /\ bellList = <<>>

====
